---- MODULE Spec2Model ----
(***************************************************************************)
(* A model of the EGEnts multi-agent portal: the blob-backed agent and     *)
(* user stores and the permission check (src/azure_utils.py), the chat     *)
(* client's send/retry loop and document deletion (src/azure_utils.py),    *)
(* and the Streamlit page router and per-agent chat state                  *)
(* (src/multi_agent_app.py, src/ui_components.py).                         *)
(*                                                                         *)
(* Python values are encoded as follows.  None is the record None; a dict  *)
(* is a TLA+ function from its keys; a str argument that may be None is a  *)
(* string with NoneStr standing for None; a permissions value carries its  *)
(* Python type in the field t ("list" or "dict").                          *)
(***************************************************************************)
EXTENDS Integers, Sequences, FiniteSets, TLC

VARIABLES
    \* ---- user store and permission check ----
    users,        \* container "user-configs": blob name -> blob
    userClient,   \* BlobStorageUserManager.blob_client is set
    permQ,        \* the last has_permission call: arguments, what it read, result
    \* ---- agent store ----
    agents,       \* container "agent-configs": blob name -> blob
    agentClient,  \* BlobStorageAgentManager.blob_client is set
    clock,        \* the time datetime.now() returns
    last,         \* the last store call that returned: operation, arguments, result
    race,         \* each session's store call in progress (method, position, locals)
    send,         \* the send_message_and_get_response call in progress or returned
    doc,          \* document container, search index chunks and the last document call
    nav,          \* st.session_state of one browser session and the page its last run rendered
    chat,         \* the per-agent chat dicts of st.session_state, the agent id configuration and the chat view rendered
    thr,          \* the client and agent of an EnhancedAzureAIAgentClient and its create_thread invocations
    refs,         \* the text given to the document reference processing and the text it returned
    regen,        \* the response registry of one agent in st.session_state.response_hashes and the process_ai_response call in progress
    job           \* the agent of the generated WebJob script, its files and the run of process_data_files in progress

permVars == <<users, userClient, permQ>>

storeVars == <<agents, agentClient, clock, last>>

vars == <<users, userClient, permQ, agents, agentClient, clock, last, race, send, doc, nav, chat, thr, refs, regen, job>>

appVars == <<race, send, doc, nav, chat, thr, refs, regen, job>>

exceptRace == <<users, userClient, permQ, agents, agentClient, clock, last, send, doc, nav, chat, thr, refs, regen, job>>

appExceptRace == <<send, doc, nav, chat, thr, refs, regen, job>>

exceptSend == <<users, userClient, permQ, agents, agentClient, clock, last, race, doc, nav, chat, thr, refs, regen, job>>

appExceptSend == <<race, doc, nav, chat, thr, refs, regen, job>>

exceptDoc == <<users, userClient, permQ, agents, agentClient, clock, last, race, send, nav, chat, thr, refs, regen, job>>

appExceptDoc == <<race, send, nav, chat, thr, refs, regen, job>>

exceptNav == <<users, userClient, permQ, agents, agentClient, clock, last, race, send, doc, chat, thr, refs, regen, job>>

appExceptNav == <<race, send, doc, chat, thr, refs, regen, job>>

exceptChat == <<users, userClient, permQ, agents, agentClient, clock, last, race, send, doc, nav, thr, refs, regen, job>>

appExceptChat == <<race, send, doc, nav, thr, refs, regen, job>>

exceptThr == <<users, userClient, permQ, agents, agentClient, clock, last, race, send, doc, nav, chat, refs, regen, job>>

appExceptThr == <<race, send, doc, nav, chat, refs, regen, job>>

exceptRefs == <<users, userClient, permQ, agents, agentClient, clock, last, race, send, doc, nav, chat, thr, regen, job>>

appExceptRefs == <<race, send, doc, nav, chat, thr, regen, job>>

exceptRegen == <<users, userClient, permQ, agents, agentClient, clock, last, race, send, doc, nav, chat, thr, refs, job>>

appExceptRegen == <<race, send, doc, nav, chat, thr, refs, job>>

exceptJob == <<users, userClient, permQ, agents, agentClient, clock, last, race, send, doc, nav, chat, thr, refs, regen>>

appExceptJob == <<race, send, doc, nav, chat, thr, refs, regen>>

exceptNavChat == <<users, userClient, permQ, agents, agentClient, clock, last, race, send, doc, thr, refs, regen, job>>

-----------------------------------------------------------------------------
(* Python values *)

None == [none |-> TRUE]

NoneStr == "<None>"

\* str(x) as an f-string renders it: None prints as "None".
Str(x) == IF x = NoneStr THEN "None" ELSE x

\* bool(x) of an Optional[str]: None and "" are falsy.
TruthyStr(x) == x # NoneStr /\ x # ""

\* a JSON value that is not an object: what json.loads gives for "[1]"
JsonArray == [array |-> <<1>>]

\* isinstance(x, dict)
IsDict(x) == x # None /\ x # JsonArray

\* bool(x) of what get_agent / get_user returned: None and {} are falsy, a
\* non-empty list is truthy
Truthy(x) == x # None /\ (x = JsonArray \/ DOMAIN x # {})

\* bool(d) of an Optional[dict]
TruthyDict(d) == Truthy(d) /\ IsDict(d)

\* [] as a permissions value, and {}
EmptyList == [t |-> "list", v |-> <<>>]

EmptyDict == [x \in {} |-> FALSE]

\* x in list
InList(x, l) == \E i \in 1..Len(l) : l[i] = x

\* d.get(k, default)
DictGet(d, k, default) == IF k \in DOMAIN d THEN d[k] ELSE default

-----------------------------------------------------------------------------
(* Blobs and JSON.  A blob is missing, holds the text json.dumps wrote (the *)
(* sequence of its key/value pairs), or holds bytes json.loads rejects.     *)

Missing == [kind |-> "missing"]

Garbage == [kind |-> "garbage"]

\* a blob holding valid JSON that is not an object
NonObject == [kind |-> "nonobject"]

\* the order json.dumps writes the keys of the records the stores build
KeyOrder == <<"id", "username", "password_hash", "name", "role", "permissions",
              "status", "enabled", "created_at", "updated_at">>

RECURSIVE PairsFrom(_, _)
PairsFrom(d, i) ==
    IF i > Len(KeyOrder) THEN <<>>
    ELSE IF KeyOrder[i] \in DOMAIN d
         THEN <<(<<KeyOrder[i], d[KeyOrder[i]]>>)>> \o PairsFrom(d, i + 1)
         ELSE PairsFrom(d, i + 1)

\* json.dumps(d, indent=2).encode('utf-8')
JsonDumps(d) == [kind |-> "json", body |-> PairsFrom(d, 1)]

\* json.loads(blob_data.decode('utf-8')) of a blob JsonDumps wrote
JsonLoads(b) ==
    [k \in {b.body[i][1] : i \in 1..Len(b.body)} |->
        LET i == CHOOSE j \in 1..Len(b.body) : b.body[j][1] = k IN b.body[i][2]]

\* f"{id}.json"
BlobName(id) == Str(id) \o ".json"

\* blob_client.download_blob().readall() followed by json.loads, inside the
\* inner try of get_agent / get_user: any exception gives None.
ReadBlob(container, id, clientOk, fault) ==
    IF ~clientOk THEN None
    ELSE IF fault THEN None
    ELSE LET b == container[BlobName(id)] IN
         IF b.kind = "json" THEN JsonLoads(b)
         ELSE IF b.kind = "nonobject" THEN JsonArray
         ELSE None

-----------------------------------------------------------------------------
(* BlobStorageAgentManager *)

\* the number of timestamped writes one behaviour makes
MaxClock == 2

\* a created_at that is None
NoTime == -1

AgentIds == {"", "a"}

AgentBlobNames == {BlobName(i) : i \in AgentIds}

\* blob.name.replace('.json', '')
StripJson(name) == CHOOSE i \in AgentIds : BlobName(i) = name

\* d[k] = v
Put(d, k, v) == (k :> v) @@ d

\* a dict with no key, or with the one key k
Opt(k, values) == {EmptyDict} \cup {(k :> v) : v \in values}

\* the agent_config dicts callers pass: id missing, empty or set, a payload
\* field, and status / enabled missing or supplied
AgentCfgs ==
    {i @@ n @@ st @@ e :
        i \in Opt("id", AgentIds), n \in {("name" :> "n1")},
        st \in Opt("status", {"inactive"}), e \in Opt("enabled", {FALSE})}

NoCall == [op |-> "none", id |-> "", ok |-> FALSE, ret |-> None, faults |-> {},
           raised |-> FALSE]

\* what a finished call leaves to look at: its operation and id argument, the
\* bool it returned (ok) or the value it returned (ret), the calls that
\* raised inside it (faults: "download", "upload", "delete", "list", "hash",
\* or "record" for a method call on a value that is not a dict), and whether
\* it raised to its caller
Returned(op, id, ok, ret, faults) ==
    [op |-> op, id |-> id, ok |-> ok, ret |-> ret, faults |-> faults,
     raised |-> FALSE]

\* a call that ended by raising: no try/except stood around the exception
Raised(op, id, faults) ==
    [op |-> op, id |-> id, ok |-> FALSE, ret |-> None, faults |-> faults,
     raised |-> TRUE]

\* the faults of a set of calls: those whose flag is set
Faults(flags) == {f \in DOMAIN flags : flags[f]}

\* get_agent(agent_id)
get_agent(agent_id, fault) == ReadBlob(agents, agent_id, agentClient, fault)

\* get_all_agents(): {} when the client is unset or list_blobs raises; an
\* entry whose get_agent gives None (or {}) is skipped
get_all_agents(listFault, entryFaults) ==
    IF ~agentClient \/ listFault THEN EmptyDict
    ELSE LET listed == {StripJson(n) : n \in {b \in AgentBlobNames : agents[b] # Missing}}
             kept == {i \in listed : Truthy(get_agent(i, i \in entryFaults))}
         IN [i \in kept |-> get_agent(i, FALSE)]

\* AddAgentRecord with the status always set to 'active', supplied or not
AddAgentRecord_ForceActive(cfg, now) ==
    LET stamped == Put(Put(cfg, "created_at", now), "updated_at", now)
        withStatus == Put(stamped, "status", "active")
    IN IF "enabled" \in DOMAIN withStatus THEN withStatus
       ELSE Put(withStatus, "enabled", TRUE)

\* the dict add_agent uploads
AddAgentRecord(cfg, now) ==
    LET stamped == Put(Put(cfg, "created_at", now), "updated_at", now)
        withStatus == IF "status" \in DOMAIN stamped THEN stamped
                      ELSE Put(stamped, "status", "active")
    IN IF "enabled" \in DOMAIN withStatus THEN withStatus
       ELSE Put(withStatus, "enabled", TRUE)

\* the dict update_agent uploads, given what its get_agent returned
UpdateAgentRecord(agent_id, cfg, existing, now) ==
    LET kept == IF Truthy(existing)
                THEN Put(cfg, "created_at", DictGet(existing, "created_at", NoTime))
                ELSE cfg
    IN Put(Put(kept, "updated_at", now), "id", agent_id)

\* add_agent(agent_config)
AddAgent(cfg, fault) ==
    /\ clock < MaxClock
    /\ LET agent_id == DictGet(cfg, "id", NoneStr)
           accepted == agentClient /\ TruthyStr(agent_id)
           ok == accepted /\ ~fault
       IN /\ agents' = IF ok
                       THEN [agents EXCEPT ![BlobName(agent_id)] =
                                JsonDumps(AddAgentRecord(cfg, clock))]
                       ELSE agents
          /\ clock' = IF ok THEN clock + 1 ELSE clock
          /\ last' = Returned("add_agent", agent_id, ok, None,
                              Faults([upload |-> accepted /\ fault]))
    /\ UNCHANGED <<agentClient, permVars, appVars>>

\* update_agent(agent_id, agent_config): existing_config.get raises on a
\* record that is not a dict, inside the try
UpdateAgent(agent_id, cfg, readFault, writeFault) ==
    /\ clock < MaxClock
    /\ LET existing == get_agent(agent_id, readFault)
           getRaises == Truthy(existing) /\ ~IsDict(existing)
           uploads == agentClient /\ ~getRaises
           ok == uploads /\ ~writeFault
       IN /\ agents' = IF ok
                       THEN [agents EXCEPT ![BlobName(agent_id)] =
                                JsonDumps(UpdateAgentRecord(agent_id, cfg, existing, clock))]
                       ELSE agents
          /\ clock' = IF ok THEN clock + 1 ELSE clock
          /\ last' = Returned("update_agent", agent_id, ok, None,
                              Faults([download |-> agentClient /\ readFault,
                                      record |-> getRaises,
                                      upload |-> uploads /\ writeFault]))
    /\ UNCHANGED <<agentClient, permVars, appVars>>

\* DeleteAgent reporting success for a blob that does not exist
DeleteAgent_MissingOk(agent_id, fault) ==
    /\ LET ok == agentClient /\ ~fault
       IN /\ agents' = IF ok THEN [agents EXCEPT ![BlobName(agent_id)] = Missing]
                       ELSE agents
          /\ last' = Returned("delete_agent", agent_id, ok, None,
                              Faults([delete |-> agentClient /\ fault]))
    /\ UNCHANGED <<agentClient, clock, permVars, appVars>>

\* delete_agent(agent_id): delete_blob raises when the blob does not exist
DeleteAgent(agent_id, fault) ==
    /\ LET ok == agentClient /\ ~fault /\ agents[BlobName(agent_id)] # Missing
       IN /\ agents' = IF ok THEN [agents EXCEPT ![BlobName(agent_id)] = Missing]
                       ELSE agents
          /\ last' = Returned("delete_agent", agent_id, ok, None,
                              Faults([delete |-> agentClient /\ fault]))
    /\ UNCHANGED <<agentClient, clock, permVars, appVars>>

\* set_agent_status(agent_id, status): get_agent, then update_agent (which
\* reads the record again); agent_config['status'] = status raises on a
\* record that is not a dict, inside the try
SetAgentStatus(agent_id, status, firstFault, readFault, writeFault) ==
    /\ clock < MaxClock
    /\ LET agent_config == get_agent(agent_id, firstFault)
           found == Truthy(agent_config)
           setRaises == found /\ ~IsDict(agent_config)
           updates == found /\ ~setRaises
           cfg == IF updates THEN Put(agent_config, "status", status) ELSE EmptyDict
           existing == get_agent(agent_id, readFault)
           ok == updates /\ ~writeFault
       IN /\ agents' = IF ok
                       THEN [agents EXCEPT ![BlobName(agent_id)] =
                                JsonDumps(UpdateAgentRecord(agent_id, cfg, existing, clock))]
                       ELSE agents
          /\ clock' = IF ok THEN clock + 1 ELSE clock
          /\ last' = Returned("set_agent_status", agent_id, ok, None,
                              Faults([download |-> agentClient /\ (firstFault \/ (updates /\ readFault)),
                                      record |-> setRaises,
                                      upload |-> updates /\ writeFault]))
    /\ UNCHANGED <<agentClient, permVars, appVars>>

\* get_agent(agent_id), called
GetAgent(agent_id, fault) ==
    /\ last' = Returned("get_agent", agent_id, FALSE, get_agent(agent_id, fault),
                        Faults([download |-> agentClient /\ fault]))
    /\ UNCHANGED <<agents, agentClient, clock, permVars, appVars>>

\* the faults of a listing: list_blobs, and the downloads of the entries
ListFaults(clientOk, listFault, entryFaults) ==
    Faults([list |-> clientOk /\ listFault,
            download |-> clientOk /\ ~listFault /\ entryFaults # {}])

\* get_all_agents(), called
GetAllAgents(listFault, entryFaults) ==
    /\ last' = Returned("get_all_agents", "", FALSE,
                        get_all_agents(listFault, entryFaults),
                        ListFaults(agentClient, listFault, entryFaults))
    /\ UNCHANGED <<agents, agentClient, clock, permVars, appVars>>

\* the filter of get_active_agents
IsActive(agent_config) ==
    \/ DictGet(agent_config, "status", "") = "active"
    \/ DictGet(agent_config, "enabled", TRUE)
    \/ "status" \notin DOMAIN agent_config

\* get_active_agents(), given what get_all_agents returned
get_active_agents(all_agents) ==
    [i \in {j \in DOMAIN all_agents : IsActive(all_agents[j])} |-> all_agents[i]]

\* get_active_agents(), called: it has no try, and agent_config.get raises
\* on an entry that is not a dict
GetActiveAgents(listFault, entryFaults) ==
    /\ LET all_agents == get_all_agents(listFault, entryFaults)
           getRaises == \E i \in DOMAIN all_agents : ~IsDict(all_agents[i])
           faults == ListFaults(agentClient, listFault, entryFaults)
       IN last' = IF getRaises
                  THEN Raised("get_active_agents", "", faults \cup {"record"})
                  ELSE Returned("get_active_agents", "", FALSE,
                                get_active_agents(all_agents), faults)
    /\ UNCHANGED <<agents, agentClient, clock, permVars, appVars>>

-----------------------------------------------------------------------------
(* BlobStorageUserManager: reads and the permission check *)

Usernames == {"", "u1"}

UserArgs == Usernames \cup {"admin", NoneStr}

UserBlobNames == {BlobName(u) : u \in UserArgs}

PermAgents == {"", "scm", "it", NoneStr}

PermActions == {"chat", "access"}

\* get_user(username)
get_user(username, fault) == ReadBlob(users, username, userClient, fault)

\* get_user_permissions(username), given what get_user returned; on a record
\* that is not a dict user_data.get raises and the except gives the guest
get_user_permissions(user_data) ==
    IF TruthyDict(user_data)
    THEN [permissions |-> DictGet(user_data, "permissions", EmptyList),
          role |-> DictGet(user_data, "role", "user")]
    ELSE [permissions |-> EmptyList, role |-> "guest"]

\* x in permissions, for a list (membership) or a dict (key membership)
InPerm(x, permissions) ==
    IF permissions.t = "list" THEN InList(x, permissions.v)
    ELSE x \in DOMAIN permissions.v

\* PermissionGranted with the agent scope of "<agent_id>:<action>" dropped: an
\* entry for any agent grants the action.
PermissionGranted_AnyAgent(agent_id, permission_type, up) ==
    IF up.role = "admin" \/ InPerm("all", up.permissions) THEN TRUE
    ELSE IF up.permissions.t = "dict"
    THEN LET agent_perms == DictGet(up.permissions.v, agent_id, EmptyDict) IN
         DictGet(agent_perms, permission_type, FALSE)
    ELSE \/ InList(permission_type, up.permissions.v)
         \/ \E a \in {"scm", "it"} :
                InList(a \o ":" \o permission_type, up.permissions.v)

\* PermissionGranted with the role test dropped: only 'all' grants everything.
PermissionGranted_NoRole(agent_id, permission_type, up) ==
    IF InPerm("all", up.permissions) THEN TRUE
    ELSE IF up.permissions.t = "dict"
    THEN LET agent_perms == DictGet(up.permissions.v, agent_id, EmptyDict) IN
         DictGet(agent_perms, permission_type, FALSE)
    ELSE \/ InList(permission_type, up.permissions.v)
         \/ InList(agent_id \o ":" \o permission_type, up.permissions.v)

\* the evaluation of has_permission once the user's permissions are read
PermissionGranted(agent_id, permission_type, up) ==
    IF up.role = "admin" \/ InPerm("all", up.permissions) THEN TRUE
    ELSE IF up.permissions.t = "dict"
    THEN LET agent_perms == DictGet(up.permissions.v, agent_id, EmptyDict) IN
         DictGet(agent_perms, permission_type, FALSE)
    ELSE IF up.permissions.t = "list"
    THEN \/ InList(permission_type, up.permissions.v)
         \/ InList(agent_id \o ":" \o permission_type, up.permissions.v)
    ELSE FALSE

\* has_permission without the check of its arguments
has_permission_NoArgCheck(username, agent_id, permission_type, fault) ==
    LET user_data == get_user(username, fault) IN
    [result |-> PermissionGranted(agent_id, permission_type,
                                  get_user_permissions(user_data)),
     read |-> TRUE, user |-> user_data]

\* has_permission(username, agent_id, permission_type): the result, whether
\* the user store was read, and what get_user returned
has_permission(username, agent_id, permission_type, fault) ==
    IF ~TruthyStr(username) \/ ~TruthyStr(agent_id)
    THEN [result |-> FALSE, read |-> FALSE, user |-> None]
    ELSE LET user_data == get_user(username, fault) IN
         [result |-> PermissionGranted(agent_id, permission_type,
                                       get_user_permissions(user_data)),
          read |-> TRUE, user |-> user_data]

NoQuery == [username |-> NoneStr, agent_id |-> NoneStr, action |-> "",
            result |-> FALSE, read |-> FALSE, user |-> None, called |-> FALSE]

HasPermissionCall(u, a, p, fault) ==
    /\ LET r == has_permission(u, a, p, fault) IN
       permQ' = [username |-> u, agent_id |-> a, action |-> p,
                 result |-> r.result, read |-> r.read, user |-> r.user,
                 called |-> TRUE]
    /\ UNCHANGED <<users, userClient>>
    /\ UNCHANGED <<storeVars, appVars>>

-----------------------------------------------------------------------------
(* BlobStorageUserManager: the store operations *)

\* hashlib.sha256(password.encode()).hexdigest()
HashPassword(password) == "sha256(" \o password \o ")"

\* _get_user_permissions(username, role): the default permissions of a role
DefaultPermissions(role) ==
    [t |-> "list",
     v |-> IF role = "admin" THEN <<"all">>
           ELSE IF role = "standard" THEN <<"access", "chat", "view">>
           ELSE IF role = "limited" THEN <<"access">>
           ELSE <<>>]

\* a permissions argument that is None
NonePerms == [t |-> "none", v |-> <<>>]

\* the dict add_user uploads
AddUserRecord(username, role, password, permissions, now) ==
    [username |-> username, password_hash |-> HashPassword(password),
     role |-> role,
     permissions |-> IF permissions = NonePerms THEN DefaultPermissions(role)
                     ELSE permissions,
     created_at |-> now, updated_at |-> now]

\* add_user(username, role, password, permissions): _hash_password raises on
\* a password that is None, inside the try
AddUser(username, role, password, permissions, fault) ==
    /\ clock < MaxClock
    /\ LET hashRaises == userClient /\ password = NoneStr
           uploads == userClient /\ ~hashRaises
           ok == uploads /\ ~fault
       IN /\ users' = IF ok
                      THEN [users EXCEPT ![BlobName(username)] =
                              JsonDumps(AddUserRecord(username, role, password,
                                                      permissions, clock))]
                      ELSE users
          /\ clock' = IF ok THEN clock + 1 ELSE clock
          /\ last' = Returned("add_user", username, ok, None,
                              Faults([hash |-> hashRaises, upload |-> uploads /\ fault]))
    /\ UNCHANGED <<userClient, permQ, agents, agentClient, appVars>>

\* create_admin_user(username, password)
CreateAdminUser(username, password, fault) ==
    /\ clock < MaxClock
    /\ LET hashRaises == userClient /\ password = NoneStr
           uploads == userClient /\ ~hashRaises
           ok == uploads /\ ~fault
       IN /\ users' = IF ok
                      THEN [users EXCEPT ![BlobName(username)] =
                              JsonDumps(AddUserRecord(username, "admin", password,
                                                      [t |-> "list", v |-> <<"all">>], clock))]
                      ELSE users
          /\ clock' = IF ok THEN clock + 1 ELSE clock
          /\ last' = Returned("create_admin_user", username, ok, None,
                              Faults([hash |-> hashRaises, upload |-> uploads /\ fault]))
    /\ UNCHANGED <<userClient, permQ, agents, agentClient, appVars>>

\* the dict update_user_permissions uploads, given what its get_user returned
UpdatePermissionsRecord(user_data, permissions, now) ==
    Put(Put(user_data, "permissions", permissions), "updated_at", now)

\* update_user_permissions(username, permissions): the item assignment
\* raises on a record that is not a dict, inside the try
UpdateUserPermissions(username, permissions, readFault, writeFault) ==
    /\ clock < MaxClock
    /\ LET user_data == get_user(username, readFault)
           found == Truthy(user_data)
           setRaises == found /\ ~IsDict(user_data)
           uploads == found /\ ~setRaises
           ok == uploads /\ ~writeFault
       IN /\ users' = IF ok
                      THEN [users EXCEPT ![BlobName(username)] =
                              JsonDumps(UpdatePermissionsRecord(user_data, permissions, clock))]
                      ELSE users
          /\ clock' = IF ok THEN clock + 1 ELSE clock
          /\ last' = Returned("update_user_permissions", username, ok, None,
                              Faults([download |-> userClient /\ readFault,
                                      record |-> setRaises,
                                      upload |-> uploads /\ writeFault]))
    /\ UNCHANGED <<userClient, permQ, agents, agentClient, appVars>>

\* delete_user(username): delete_blob raises when the blob does not exist
DeleteUser(username, fault) ==
    /\ LET ok == userClient /\ ~fault /\ users[BlobName(username)] # Missing
       IN /\ users' = IF ok THEN [users EXCEPT ![BlobName(username)] = Missing]
                      ELSE users
          /\ last' = Returned("delete_user", username, ok, None,
                              Faults([delete |-> userClient /\ fault]))
    /\ UNCHANGED <<userClient, permQ, agents, agentClient, clock, appVars>>

\* get_user(username), called
GetUser(username, fault) ==
    /\ last' = Returned("get_user", username, FALSE, get_user(username, fault),
                        Faults([download |-> userClient /\ fault]))
    /\ UNCHANGED <<users, userClient, permQ, agents, agentClient, clock, appVars>>

\* a record without its password_hash
WithoutHash(user_data) ==
    [k \in DOMAIN user_data \ {"password_hash"} |-> user_data[k]]

\* get_all_users(): {} when the client is unset or list_blobs raises; an entry
\* whose get_user gives None is skipped; user_data.items() raises on an entry
\* that is not a dict, and the except gives {}
get_all_users(listFault, entryFaults) ==
    IF ~userClient \/ listFault THEN EmptyDict
    ELSE LET listed == {u \in Usernames : users[BlobName(u)] # Missing}
             kept == {u \in listed : Truthy(get_user(u, u \in entryFaults))}
         IN IF \E u \in kept : ~IsDict(get_user(u, FALSE)) THEN EmptyDict
            ELSE [u \in kept |-> WithoutHash(get_user(u, FALSE))]

\* get_all_users(), called
GetAllUsers(listFault, entryFaults) ==
    /\ last' = Returned("get_all_users", "", FALSE,
                        get_all_users(listFault, entryFaults),
                        ListFaults(userClient, listFault, entryFaults))
    /\ UNCHANGED <<users, userClient, permQ, agents, agentClient, clock, appVars>>

\* authenticate_admin(username, password): user_data.get on a record that is
\* not a dict, and _hash_password(None), raise inside the try and give False
authenticate_admin(username, password, fault) ==
    LET user_data == get_user(username, fault) IN
    /\ TruthyDict(user_data)
    /\ DictGet(user_data, "role", "") = "admin"
    /\ password # NoneStr
    /\ DictGet(user_data, "password_hash", "") = HashPassword(password)

\* authenticate_admin(username, password), called
AuthenticateAdmin(username, password, fault) ==
    /\ LET user_data == get_user(username, fault)
           isAdmin == TruthyDict(user_data) /\ DictGet(user_data, "role", "") = "admin"
       IN last' = Returned("authenticate_admin", username,
                           authenticate_admin(username, password, fault), None,
                           Faults([download |-> userClient /\ fault,
                                   record |-> Truthy(user_data) /\ ~IsDict(user_data),
                                   hash |-> isAdmin /\ password = NoneStr]))
    /\ UNCHANGED <<users, userClient, permQ, agents, agentClient, clock, appVars>>

(* The stored user records the permission check is run against: every role  *)
(* the code distinguishes, list permissions in both forms, and the old      *)
(* dictionary format.                                                       *)
PermValues ==
    {[t |-> "list", v |-> l] :
        l \in {<<>>, <<"chat">>, <<"scm:chat">>, <<"all">>,
               <<"scm:chat", "it:access">>, <<"access", "it:chat">>}}
    \cup
    {[t |-> "dict", v |-> d] :
        d \in {[scm |-> [chat |-> TRUE, access |-> FALSE]],
               [all |-> [chat |-> FALSE]]}}

StoredUser(username, role, perms) ==
    [username |-> username, password_hash |-> "h", role |-> role,
     permissions |-> perms, created_at |-> 0, updated_at |-> 0]

PermUserRecords(username) ==
    {StoredUser(username, role, perms) :
        role \in {"admin", "standard"}, perms \in PermValues}
    \cup {[username |-> username, password_hash |-> "h",
           permissions |-> perms, created_at |-> 0, updated_at |-> 0] :
            perms \in PermValues}
    \cup {[username |-> username, password_hash |-> "h", role |-> role,
           created_at |-> 0, updated_at |-> 0] : role \in {"admin", "standard"}}

-----------------------------------------------------------------------------
(* Two sessions on the same stores.  A Streamlit session runs a store method *)
(* on its own thread; each SDK call of the method is one step, and what the  *)
(* method holds between its calls is the session's local state.              *)

Sessions == {1, 2}

IdleSession == [op |-> "none", pc |-> "idle", id |-> "", seen |-> Missing,
                record |-> None, ret |-> "pending"]

NoRace == [s \in Sessions |-> IdleSession]

\* a call that returned without writing
Finished(op, id, ret) ==
    [op |-> op, pc |-> "done", id |-> id, seen |-> Missing, record |-> None, ret |-> ret]

\* upload_blob(body, overwrite=True) with the blob this writer read before: a
\* write that goes through only when the blob is still the one read (If-Match)
Upload_IfMatch(container, name, body, seen) ==
    IF container[name] = seen THEN [container EXCEPT ![name] = body] ELSE container

\* upload_blob(body, overwrite=True): the container afterwards, whatever the
\* blob this writer read before (seen) and whatever is stored now
Upload(container, name, body, seen) == [container EXCEPT ![name] = body]

\* update_agent(agent_id, cfg) up to its upload: the client check, get_agent,
\* created_at / updated_at / id
StartUpdateAgent(s, agent_id, cfg) ==
    /\ race[s].pc = "idle"
    /\ LET existing == get_agent(agent_id, FALSE)
           getRaises == Truthy(existing) /\ ~IsDict(existing)
       IN race' = [race EXCEPT ![s] =
                    IF ~agentClient \/ getRaises
                    THEN Finished("update_agent", agent_id, "False")
                    ELSE [op |-> "update_agent", pc |-> "upload", id |-> agent_id,
                          seen |-> agents[BlobName(agent_id)],
                          record |-> UpdateAgentRecord(agent_id, cfg, existing, clock),
                          ret |-> "pending"]]
    /\ UNCHANGED exceptRace

\* set_agent_status(agent_id, status) up to its call of update_agent:
\* get_agent, the not-found return, agent_config['status'] = status
StartSetAgentStatus(s, agent_id, status) ==
    /\ race[s].pc = "idle"
    /\ LET agent_config == get_agent(agent_id, FALSE)
       IN race' = [race EXCEPT ![s] =
                    IF ~TruthyDict(agent_config)
                    THEN Finished("set_agent_status", agent_id, "False")
                    ELSE [op |-> "set_agent_status", pc |-> "reread", id |-> agent_id,
                          seen |-> agents[BlobName(agent_id)],
                          record |-> Put(agent_config, "status", status),
                          ret |-> "pending"]]
    /\ UNCHANGED exceptRace

\* the update_agent inside set_agent_status up to its upload: get_agent
\* again, created_at / updated_at / id
RereadAgent(s) ==
    /\ race[s].pc = "reread"
    /\ LET existing == get_agent(race[s].id, FALSE)
       IN race' = [race EXCEPT ![s].pc = "upload",
                               ![s].record = UpdateAgentRecord(race[s].id, race[s].record,
                                                               existing, clock)]
    /\ UNCHANGED exceptRace

\* the upload_blob of update_agent, and return True
UploadAgent(s) ==
    /\ race[s].pc = "upload"
    /\ race[s].op \in {"update_agent", "set_agent_status"}
    /\ agents' = Upload(agents, BlobName(race[s].id), JsonDumps(race[s].record), race[s].seen)
    /\ clock' = clock + 1
    /\ race' = [race EXCEPT ![s].pc = "done", ![s].ret = "True"]
    /\ UNCHANGED <<users, userClient, permQ, agentClient, last, appExceptRace>>

\* update_user_permissions(username, permissions) up to its upload: get_user,
\* the not-found return, permissions and updated_at
StartUpdateUserPermissions(s, username, permissions) ==
    /\ race[s].pc = "idle"
    /\ LET user_data == get_user(username, FALSE)
       IN race' = [race EXCEPT ![s] =
                    IF ~TruthyDict(user_data)
                    THEN Finished("update_user_permissions", username, "False")
                    ELSE [op |-> "update_user_permissions", pc |-> "upload", id |-> username,
                          seen |-> users[BlobName(username)],
                          record |-> UpdatePermissionsRecord(user_data, permissions, clock),
                          ret |-> "pending"]]
    /\ UNCHANGED exceptRace

\* the upload_blob of update_user_permissions, and return True
UploadUser(s) ==
    /\ race[s].pc = "upload"
    /\ race[s].op = "update_user_permissions"
    /\ users' = Upload(users, BlobName(race[s].id), JsonDumps(race[s].record), race[s].seen)
    /\ clock' = clock + 1
    /\ race' = [race EXCEPT ![s].pc = "done", ![s].ret = "True"]
    /\ UNCHANGED <<userClient, permQ, agents, agentClient, last, appExceptRace>>

\* delete_agent(agent_id): one SDK call
SessionDeleteAgent(s, agent_id) ==
    /\ race[s].pc = "idle"
    /\ LET ok == agentClient /\ agents[BlobName(agent_id)] # Missing
       IN /\ agents' = IF ok THEN [agents EXCEPT ![BlobName(agent_id)] = Missing]
                       ELSE agents
          /\ race' = [race EXCEPT ![s] =
                        Finished("delete_agent", agent_id, IF ok THEN "True" ELSE "False")]
    /\ UNCHANGED <<users, userClient, permQ, agentClient, clock, last, appExceptRace>>

\* the edited configs and permission lists the two sessions submit
RaceCfgs == {("name" :> "n2") @@ ("status" :> "active"), ("name" :> "n3")}

RacePerms == {[t |-> "list", v |-> <<"scm:chat">>], [t |-> "list", v |-> <<"it:chat">>]}

-----------------------------------------------------------------------------
(* EnhancedAzureAIAgentClient.send_message_and_get_response.  Each SDK call *)
(* of an attempt is one step: create_message, create_and_process_run,       *)
(* list_messages.                                                           *)

max_retries == 3

\* the number of calls one behaviour makes
MaxCalls == 2

retry_delay == 1

\* the strings the call returns ("hatasi" is written with a dotless i in the
\* source); <e> stands for str(e)
NoResponse == "No response received from agent."

ConnectionError == "AI Agent baglanti hatasi: <e>"

GeneralError == "AI Agent genel hatasi: <e>"

\* posted: the user messages create_message has put on the thread; posts:
\* how many of them the call in progress has put there
NoSend == [pc |-> "idle", thread_id |-> "", user_message |-> "", attempt |-> 0,
           started |-> 0, posted |-> <<>>, sleeps |-> <<>>, log |-> <<>>,
           result |-> "", calls |-> 0, posts |-> 0]

ThreadIds == {"t1", "t2"}

UserMessages == {"hi", "status?"}

\* what the agent attribute is when the call is made: loaded, None but
\* reloadable from agent_id, None with a failing reload, None with no
\* agent_id, or an object without id
AgentStates == {"loaded", "reloads", "reloadFails", "noAgentId", "noId"}

SdkOutcomes == {"ok", "AzureError", "Exception"}

\* _process_document_references(response_text, first_message): the citation
\* markers of the text become document-reference spans
ProcessDocumentReferences(response_text, cited) ==
    IF cited THEN response_text \o "<span class=\"document-reference\">doc</span>"
    ELSE response_text

\* the call returns text
Return(sn, outcome, text) ==
    [sn EXCEPT !.pc = "done", !.log = Append(sn.log, outcome), !.result = text]

\* AfterException retrying after any exception
AfterException_RetryAny(sn, exc) ==
    IF sn.attempt < max_retries - 1
    THEN [sn EXCEPT !.pc = "post", !.attempt = sn.attempt + 1,
                    !.started = sn.started + 1,
                    !.sleeps = Append(sn.sleeps, retry_delay * (2 ^ sn.attempt)),
                    !.log = Append(sn.log, exc)]
    ELSE Return(sn, exc, ConnectionError)

\* AfterException sleeping after the last attempt too
AfterException_SleepLast(sn, exc) ==
    IF exc = "AzureError"
    THEN IF sn.attempt < max_retries - 1
         THEN [sn EXCEPT !.pc = "post", !.attempt = sn.attempt + 1,
                         !.started = sn.started + 1,
                         !.sleeps = Append(sn.sleeps, retry_delay * (2 ^ sn.attempt)),
                         !.log = Append(sn.log, exc)]
         ELSE [sn EXCEPT !.pc = "done", !.log = Append(sn.log, exc),
                         !.sleeps = Append(sn.sleeps, retry_delay * (2 ^ sn.attempt)),
                         !.result = ConnectionError]
    ELSE [sn EXCEPT !.pc = "done", !.log = Append(sn.log, exc), !.result = GeneralError]

\* an SDK call of the attempt raised exc: except AzureError sleeps and goes
\* to the next attempt, or returns after the last one; anything else reaches
\* the outer except Exception
AfterException(sn, exc) ==
    IF exc = "AzureError"
    THEN IF sn.attempt < max_retries - 1
         THEN [sn EXCEPT !.pc = "post", !.attempt = sn.attempt + 1,
                         !.started = sn.started + 1,
                         !.sleeps = Append(sn.sleeps, retry_delay * (2 ^ sn.attempt)),
                         !.log = Append(sn.log, exc)]
         ELSE Return(sn, exc, ConnectionError)
    ELSE Return(sn, exc, GeneralError)

\* the call, up to the first attempt: the client and agent checks, each of
\* which raises inside the outer try
SendCall(thread_id, user_message, clientOk, agentState) ==
    /\ send.pc = "idle"
    /\ send.calls < MaxCalls
    /\ send' = IF clientOk /\ agentState \in {"loaded", "reloads"}
               THEN [send EXCEPT !.pc = "post", !.thread_id = thread_id,
                                 !.user_message = user_message, !.started = 1,
                                 !.calls = send.calls + 1]
               ELSE [send EXCEPT !.pc = "done", !.thread_id = thread_id,
                                 !.user_message = user_message,
                                 !.result = GeneralError, !.calls = send.calls + 1]
    /\ UNCHANGED exceptSend

\* client.agents.create_message(thread_id, role="user", content=user_message)
SendPost(outcome) ==
    /\ send.pc = "post"
    /\ send' = IF outcome = "ok"
               THEN [send EXCEPT !.pc = "run",
                                 !.posted = Append(send.posted, send.user_message),
                                 !.posts = send.posts + 1]
               ELSE AfterException(send, outcome)
    /\ UNCHANGED exceptSend

\* client.agents.create_and_process_run(thread_id, agent_id)
SendRun(outcome) ==
    /\ send.pc = "run"
    /\ send' = IF outcome = "ok" THEN [send EXCEPT !.pc = "list"]
               ELSE AfterException(send, outcome)
    /\ UNCHANGED exceptSend

\* client.agents.list_messages(thread_id) and the extraction of the reply:
\* shape is the attribute the result has (data, text_messages or neither),
\* response_text the assistant text found ("" when there is none)
SendList(outcome, shape, response_text, cited) ==
    /\ send.pc = "list"
    /\ send' = IF outcome # "ok" THEN AfterException(send, outcome)
               ELSE IF shape = "neither" \/ response_text = ""
               THEN Return(send, "returned", NoResponse)
               ELSE LET text == ProcessDocumentReferences(response_text, cited) IN
                    Return(send, "returned", IF text # "" THEN text ELSE NoResponse)
    /\ UNCHANGED exceptSend

\* the caller takes the result; the messages posted stay on the thread
SendReturn ==
    /\ send.pc = "done"
    /\ send' = [NoSend EXCEPT !.posted = send.posted, !.calls = send.calls]
    /\ UNCHANGED exceptSend

-----------------------------------------------------------------------------
(* EnhancedAzureAIAgentClient.upload_document / delete_document and the     *)
(* index clean-up of _standard_index_deletion.  The index holds chunks, each *)
(* with the title of the file it came from.                                  *)

Files == {"a.pdf", "xa.pdf"}

ChunkNumbers == {1, 2}

AllChunks == Files \X ChunkNumbers

\* file_name == title or file_name in title
TitleMatches(file_name, title) ==
    file_name = title \/ (file_name = "a.pdf" /\ title = "xa.pdf")

\* documents_to_delete: the chunks of the index whose title matches
Matching(file_name, chunks) == {c \in chunks : TitleMatches(file_name, c[1])}

\* the index_name arguments: None, empty, blank, and a name
IndexNames == {NoneStr, "", " ", "docs-index"}

\* not index_name, or index_name.strip() == ""
ValidIndexName(index_name) == index_name \notin {NoneStr, "", " "}

\* tiers: the clean-up tiers the call ran, in order; outcomes: what each of
\* them came to
NoDocCall == [op |-> "none", file |-> "", result |-> FALSE, blobDeleted |-> FALSE,
              tiers |-> <<>>, outcomes |-> <<>>, indexOk |-> FALSE]

\* a tier returns a true value, returns a false one, or raises
TierOutcomes == {"success", "failure", "raises"}

\* one try block of _standard_index_deletion: the tier is called and
\* deletion_success is set when it reports success
Tier(s, name, outcome) ==
    [deletion_success |-> s.deletion_success \/ outcome = "success",
     tiers |-> Append(s.tiers, name), outcomes |-> Append(s.outcomes, outcome)]

\* _standard_index_deletion with the reindex run only after a failed removal
standard_index_deletion_Fallback(remove_result, reindex_result, advanced_delete_result) ==
    LET step1 == Tier([deletion_success |-> FALSE, tiers |-> <<>>, outcomes |-> <<>>],
                      "remove", remove_result)
        step2 == IF ~step1.deletion_success THEN Tier(step1, "reindex", reindex_result)
                 ELSE step1
    IN IF ~step2.deletion_success THEN Tier(step2, "advanced", advanced_delete_result)
       ELSE step2

\* _standard_index_deletion(container_name, file_name, index_name)
standard_index_deletion(remove_result, reindex_result, advanced_delete_result) ==
    LET step1 == Tier([deletion_success |-> FALSE, tiers |-> <<>>, outcomes |-> <<>>],
                      "remove", remove_result)
        step2 == Tier(step1, "reindex", reindex_result)
    IN IF ~step2.deletion_success THEN Tier(step2, "advanced", advanced_delete_result)
       ELSE step2

NoDocs == [blobs |-> Files, chunks |-> AllChunks, call |-> NoDocCall]

\* what delete_document would return if the index clean-up counted
DeleteDocumentResult_NeedsIndex(blobDeleted, index_deletion_success) ==
    blobDeleted /\ index_deletion_success

\* what delete_document returns once delete_blob has returned or raised
DeleteDocumentResult(blobDeleted, index_deletion_success) == blobDeleted

\* delete_document(container_name, file_name, index_name).  blobFault: the
\* delete_blob call raises; removed1 / removed3: the chunks the direct removal
\* and the advanced search-and-delete manage to delete (none when the search
\* fails or finds nothing); reindexOk: run_indexer reports success
DeleteDocument(file_name, index_name, blobFault, removed1, reindexOk, removed3) ==
    /\ removed1 \subseteq Matching(file_name, doc.chunks)
    /\ removed3 \subseteq Matching(file_name, doc.chunks)
    /\ LET blobDeleted == /\ ValidIndexName(index_name)
                          /\ ~blobFault
                          /\ file_name \in doc.blobs
           ok1 == removed1 # {}
           tier3 == ~(ok1 \/ reindexOk)
           ok3 == tier3 /\ removed3 # {}
           removed == IF tier3 THEN removed3 ELSE removed1
           indexOk == ok1 \/ reindexOk \/ ok3
       IN /\ ~tier3 => removed3 = {}
          /\ tier3 => removed1 = {}
          /\ ~blobDeleted => removed1 = {} /\ removed3 = {} /\ ~reindexOk
          /\ doc' = [blobs |-> IF blobDeleted THEN doc.blobs \ {file_name} ELSE doc.blobs,
                     chunks |-> IF blobDeleted THEN doc.chunks \ removed ELSE doc.chunks,
                     call |-> [op |-> "delete_document", file |-> file_name,
                               result |-> DeleteDocumentResult(blobDeleted, indexOk),
                               blobDeleted |-> blobDeleted,
                               tiers |-> IF ~blobDeleted THEN <<>>
                                         ELSE IF tier3
                                         THEN <<"remove", "reindex", "advanced">>
                                         ELSE <<"remove", "reindex">>,
                               outcomes |-> <<>>,
                               indexOk |-> blobDeleted /\ indexOk]]
    /\ UNCHANGED exceptDoc

\* _standard_index_deletion(container_name, file_name, index_name) on its
\* own.  removed1 / removed3: the chunks the direct removal and the advanced
\* search-and-delete delete, none unless the tier reports success
StandardIndexDeletion(file_name, remove_result, reindex_result, advanced_delete_result, removed1, removed3) ==
    /\ removed1 \subseteq Matching(file_name, doc.chunks)
    /\ removed3 \subseteq Matching(file_name, doc.chunks) \ removed1
    /\ (remove_result = "success") = (removed1 # {})
    /\ LET s == standard_index_deletion(remove_result, reindex_result,
                                        advanced_delete_result)
       IN /\ IF Len(s.tiers) = 3
             THEN (advanced_delete_result = "success") = (removed3 # {})
             ELSE advanced_delete_result = "failure" /\ removed3 = {}
          /\ doc' = [doc EXCEPT
                       !.chunks = doc.chunks \ (removed1 \cup removed3),
                       !.call = [op |-> "_standard_index_deletion", file |-> file_name,
                                 result |-> s.deletion_success, blobDeleted |-> FALSE,
                                 tiers |-> s.tiers, outcomes |-> s.outcomes,
                                 indexOk |-> s.deletion_success]]
    /\ UNCHANGED exceptDoc

\* upload_document(container_name, file_name, file_content): an exception of
\* the container or blob calls is swallowed and the call still returns True
upload_document(blobs, file_name, fault) ==
    [blobs |-> IF fault THEN blobs ELSE blobs \cup {file_name}, ret |-> TRUE]

\* upload_and_index_document(container_name, filename, file_content,
\* content_type, index_name): the upload, then the indexer run when an index
\* name is given
upload_and_index_document(blobs, filename, index_name, fault, reindexOk) ==
    LET blob_upload_success == upload_document(blobs, filename, fault)
    IN IF ~blob_upload_success.ret
       THEN [blobs |-> blob_upload_success.blobs, success |-> FALSE, indexed |-> FALSE]
       ELSE [blobs |-> blob_upload_success.blobs, success |-> TRUE,
             indexed |-> IF TruthyStr(index_name) THEN reindexOk ELSE FALSE]

\* the document store after upload_and_index_document
Uploaded(d, filename, index_name, fault, reindexOk) ==
    LET result == upload_and_index_document(d.blobs, filename, index_name, fault, reindexOk)
    IN [d EXCEPT !.blobs = result.blobs,
                 !.call = [op |-> "upload_and_index_document", file |-> filename,
                           result |-> result.success, blobDeleted |-> FALSE,
                           tiers |-> <<>>, outcomes |-> <<>>,
                           indexOk |-> result.indexed]]

UploadDocument(file_name, fault) ==
    /\ doc' = [doc EXCEPT !.blobs = upload_document(doc.blobs, file_name, fault).blobs,
                          !.call = [op |-> "upload_document", file |-> file_name,
                                    result |-> upload_document(doc.blobs, file_name, fault).ret,
                                    blobDeleted |-> FALSE,
                                    tiers |-> <<>>, outcomes |-> <<>>, indexOk |-> FALSE]]
    /\ UNCHANGED exceptDoc

UploadAndIndexDocument(filename, index_name, fault, reindexOk) ==
    /\ doc' = Uploaded(doc, filename, index_name, fault, reindexOk)
    /\ UNCHANGED exceptDoc

-----------------------------------------------------------------------------
(* The page router: main() of multi_agent_app.py and the buttons of the     *)
(* pages of ui_components.py.  A run of the script is one step (Main); a     *)
(* button pressed on the page the last run rendered is one step, ending in   *)
(* st.rerun().                                                               *)

\* the agents of st.session_state.agents
NavAgents == {"scm", "it"}

\* ADMIN_USERS
ADMIN_USERS == {"admin", "administrator@yourdomain.com"}

\* session_vars of initialize_session_state.  cleared: the keys other than
\* current_page, agents and user_manager have been deleted and not yet set
\* again.  rendered: the page function the last run called ("rerun" when the
\* run ended in st.rerun() before any)
SessionDefaults(user_manager) ==
    [authenticated |-> FALSE, current_user |-> NoneStr, user_role |-> NoneStr,
     current_page |-> "login", selected_agent |-> NoneStr,
     user_manager |-> user_manager, cleared |-> FALSE, rendered |-> "rerun"]

NoNav == SessionDefaults(TRUE)

\* initialize_session_state(): a key that is not in st.session_state gets its
\* default
initialize_session_state(st) ==
    IF st.cleared
    THEN [SessionDefaults(st.user_manager) EXCEPT !.current_page = st.current_page]
    ELSE st

\* Route without the authentication test
Route_NoAuthCheck(st) ==
    IF st.current_page = "login"
    THEN [st EXCEPT !.current_page = "dashboard", !.rendered = "rerun"]
    ELSE IF st.current_page = "dashboard" THEN [st EXCEPT !.rendered = "dashboard"]
    ELSE IF st.current_page \in {"agent_interface", "azure_agent_interface"}
    THEN [st EXCEPT !.rendered = "agent_interface"]
    ELSE IF st.current_page = "settings"
    THEN [st EXCEPT !.rendered = IF st.user_role = "admin" THEN "settings"
                                 ELSE "settings_denied"]
    ELSE [st EXCEPT !.rendered = "unknown"]

\* the routing of main()
Route(st) ==
    IF ~st.authenticated
    THEN [st EXCEPT !.current_page = "login", !.rendered = "login"]
    ELSE IF st.current_page = "login"
    THEN [st EXCEPT !.current_page = "dashboard", !.rendered = "rerun"]
    ELSE IF st.current_page = "dashboard" THEN [st EXCEPT !.rendered = "dashboard"]
    ELSE IF st.current_page \in {"agent_interface", "azure_agent_interface"}
    THEN [st EXCEPT !.rendered = "agent_interface"]
    ELSE IF st.current_page = "settings"
    THEN [st EXCEPT !.rendered = IF st.user_role = "admin" THEN "settings"
                                 ELSE "settings_denied"]
    ELSE [st EXCEPT !.rendered = "unknown"]

\* the admin form of show_login_page, submitted
LoginAdmin(username, password) ==
    /\ nav.rendered = "login"
    /\ nav' = IF nav.user_manager /\ authenticate_admin(username, password, FALSE)
              THEN [nav EXCEPT !.authenticated = TRUE, !.current_user = username,
                               !.user_role = "admin", !.current_page = "dashboard",
                               !.rendered = "rerun"]
              ELSE nav
    /\ UNCHANGED exceptNav

\* the role show_login_page gives an Azure AD user
AzureUserRole(user_manager, user_email) ==
    IF ~user_manager
    THEN IF user_email \in ADMIN_USERS THEN "admin" ELSE "standard"
    ELSE LET user_data == get_user(user_email, FALSE) IN
         IF TruthyDict(user_data) THEN DictGet(user_data, "role", "standard")
         ELSE IF user_email \in ADMIN_USERS THEN "admin" ELSE "standard"

\* the Azure AD callback of show_login_page: the token request succeeded or not
LoginAzure(user_email, tokenOk) ==
    /\ nav.rendered = "login"
    /\ nav' = IF tokenOk
              THEN [nav EXCEPT !.authenticated = TRUE, !.current_user = user_email,
                               !.user_role = AzureUserRole(nav.user_manager, user_email),
                               !.current_page = "dashboard", !.rendered = "rerun"]
              ELSE nav
    /\ UNCHANGED exceptNav

\* has_access of the dashboard tiles and of show_agent_interface
HasAccess(st, agent_id) ==
    IF st.user_role = "admin" THEN TRUE
    ELSE IF ~st.user_manager THEN FALSE
    ELSE IF ~TruthyStr(st.current_user) THEN FALSE
    ELSE has_permission(st.current_user, agent_id, "access", FALSE).result

\* the Settings button of show_dashboard, shown to an admin
ClickSettings ==
    /\ nav.rendered = "dashboard"
    /\ nav.user_role = "admin"
    /\ nav' = [nav EXCEPT !.current_page = "settings", !.rendered = "rerun"]
    /\ UNCHANGED exceptNav

\* the Open button of a dashboard tile, shown when has_access
OpenAgent(agent_id) ==
    /\ nav.rendered = "dashboard"
    /\ HasAccess(nav, agent_id)
    /\ nav' = [nav EXCEPT !.selected_agent = agent_id,
                          !.current_page = "agent_interface", !.rendered = "rerun"]
    /\ UNCHANGED exceptNav

\* the Back to Dashboard button of show_agent_interface, show_settings and
\* the admin-required notice
BackToDashboard ==
    /\ nav.rendered \in {"agent_interface", "settings", "settings_denied"}
    /\ nav' = [nav EXCEPT !.current_page = "dashboard", !.rendered = "rerun"]
    /\ UNCHANGED exceptNav

-----------------------------------------------------------------------------
(* The chat tab: show_agent_interface / show_agent_chat of ui_components.py. *)
(* The dicts ai_clients, thread_ids, connection_status, messages and         *)
(* conversation_ids of st.session_state are keyed by azure_agent_id.         *)

\* the number of thread and conversation ids handed out
MaxIds == 4

\* the number of chat inputs submitted and tab buttons pressed
MaxSends == 2

\* what the connection attempt of show_agent_chat comes to: the client
\* constructor raises, create_thread raises or returns no id, or both succeed
ConnectOutcomes == {"client_failed", "thread_failed", "connected"}

\* env: AZURE_AI_AGENT_ID (NoneStr when unset); cfg: the 'agent_id' field of
\* each configured agent ("" when it has none).  by, in a message, is the
\* configured agent in whose chat it was typed.  acts: the backend calls of
\* the last run of the script ("client": the EnhancedAzureAIAgentClient
\* constructor, "create_thread", "send": send_message_and_get_response or
\* send_message_with_code_interpreter), each with the selected agent and the
\* session user of that run
NoChat == [env |-> NoneStr, cfg |-> [a \in NavAgents |-> ""],
           ai_clients |-> EmptyDict, thread_ids |-> EmptyDict,
           connection_status |-> EmptyDict, messages |-> EmptyDict,
           conversation_ids |-> EmptyDict, nextId |-> 1, sends |-> 0,
           view |-> "none", shown |-> <<>>, acts |-> {}]

\* a backend call made in a run of the script with session state st
Act(st, call) ==
    [call |-> call, agent |-> st.selected_agent, user |-> st.current_user,
     role |-> st.user_role, user_manager |-> st.user_manager]

\* a reset that leaves the message lists in place
ResetSession_KeepMessages(ch) ==
    [NoChat EXCEPT !.env = ch.env, !.cfg = ch.cfg, !.nextId = ch.nextId,
                   !.sends = ch.sends, !.messages = ch.messages]

\* every session key but agents and user_manager deleted, and set again by
\* initialize_session_state
ResetSession(ch) ==
    [NoChat EXCEPT !.env = ch.env, !.cfg = ch.cfg, !.nextId = ch.nextId,
                   !.sends = ch.sends]

\* azure_agent_id = env_agent_id or agent_config.get('agent_id') or
\* agent_config.get('id')
AzureAgentId(ch, agent_id) ==
    IF TruthyStr(ch.env) THEN ch.env
    ELSE IF TruthyStr(ch.cfg[agent_id]) THEN ch.cfg[agent_id]
    ELSE agent_id

\* can_chat without the permission check
CanChat_Unchecked(st, agent_id) == TRUE

\* can_chat of show_agent_chat
CanChat(st, agent_id) ==
    IF st.user_role = "admin" THEN TRUE
    ELSE IF ~st.user_manager THEN FALSE
    ELSE IF ~TruthyStr(st.current_user) THEN FALSE
    ELSE has_permission(st.current_user, agent_id, "chat", FALSE).result

\* filtered_messages: the messages of the key that carry its current thread
\* id and conversation id (0: none)
Displayed(ch, key) ==
    LET tid == DictGet(ch.thread_ids, key, 0)
        cid == DictGet(ch.conversation_ids, key, 0)
        keep(m) == m.thread_id = tid /\ m.conversation_id = cid
    IN IF tid = 0 THEN <<>>
       ELSE SelectSeq(DictGet(ch.messages, key, <<>>), keep)

\* show_agent_chat(agent_config): the permission check, the connection (a
\* client and a thread for a key that has no client yet) and the message list
show_agent_chat(st, ch, conn) ==
    LET agent_id == st.selected_agent
        key == AzureAgentId(ch, agent_id)
    IN IF ~CanChat(st, agent_id) THEN [ch EXCEPT !.view = "chat_denied", !.shown = <<>>]
       ELSE IF key \notin DOMAIN ch.ai_clients
       THEN IF conn = "client_failed"
            THEN [ch EXCEPT !.view = "client_failed", !.shown = <<>>,
                            !.acts = ch.acts \cup {Act(st, "client")}]
            ELSE IF conn = "thread_failed"
            THEN [ch EXCEPT !.view = "thread_failed", !.shown = <<>>,
                            !.acts = ch.acts \cup {Act(st, "client"), Act(st, "create_thread")}]
            ELSE LET connected ==
                        [ch EXCEPT !.ai_clients = Put(ch.ai_clients, key, agent_id),
                                   !.thread_ids = Put(ch.thread_ids, key, ch.nextId),
                                   !.connection_status = Put(ch.connection_status, key, TRUE),
                                   !.messages = IF key \in DOMAIN ch.messages THEN ch.messages
                                                ELSE Put(ch.messages, key, <<>>),
                                   !.nextId = ch.nextId + 1,
                                   !.acts = ch.acts \cup {Act(st, "client"), Act(st, "create_thread")}]
                 IN [connected EXCEPT !.view = "chat", !.shown = Displayed(connected, key)]
       ELSE IF ~DictGet(ch.connection_status, key, FALSE)
       THEN [ch EXCEPT !.view = "not_connected", !.shown = <<>>]
       ELSE LET listed ==
                    IF DictGet(ch.thread_ids, key, 0) = 0
                       /\ DictGet(ch.messages, key, <<>>) # <<>>
                    THEN [ch EXCEPT !.messages = Put(ch.messages, key, <<>>)]
                    ELSE ch
            IN [listed EXCEPT !.view = "chat", !.shown = Displayed(listed, key)]

\* can_upload, can_delete, can_download of show_document_management
CanDocument(st, agent_id, permission_type) ==
    IF st.user_role = "admin" THEN TRUE
    ELSE IF ~st.user_manager \/ ~TruthyStr(st.current_user) THEN FALSE
    ELSE has_permission(st.current_user, agent_id, permission_type, FALSE).result

\* the user passes the "Document Access Denied" return
AnyDocumentPermission(st, agent_id) ==
    \E p \in {"document_upload", "document_delete", "document_download"} :
        CanDocument(st, agent_id, p)

\* the client initialisation of the Upload Files handler and of the Document
\* Library: a client is constructed for agent_config['id'] when ai_clients
\* has none under that key, and stored there; a constructor that raises is
\* caught and nothing is stored
DocumentClient(st, ch, clientOk) ==
    LET agent_id == st.selected_agent
    IN IF agent_id \in DOMAIN ch.ai_clients THEN ch
       ELSE IF ~clientOk THEN [ch EXCEPT !.acts = ch.acts \cup {Act(st, "client")}]
       ELSE [ch EXCEPT !.ai_clients = Put(ch.ai_clients, agent_id, agent_id),
                       !.acts = ch.acts \cup {Act(st, "client")}]

\* show_document_management(agent_config) with no button pressed: the
\* permission checks and the Document Library
show_document_management(st, ch, clientOk) ==
    IF ~AnyDocumentPermission(st, st.selected_agent) THEN ch
    ELSE DocumentClient(st, ch, clientOk)

\* show_agent_interface(): the selection and access checks, then the Chat,
\* Documents and Settings tabs (the Settings tab, with no button pressed,
\* only displays)
show_agent_interface(st, ch, conn, clientOk) ==
    LET start == [ch EXCEPT !.acts = {}]
    IN IF ~TruthyStr(st.selected_agent)
       THEN [start EXCEPT !.view = "no_selection", !.shown = <<>>]
       ELSE IF st.selected_agent \notin NavAgents
       THEN [start EXCEPT !.view = "not_found", !.shown = <<>>]
       ELSE IF ~HasAccess(st, st.selected_agent)
       THEN [start EXCEPT !.view = "access_denied", !.shown = <<>>]
       ELSE show_document_management(st, show_agent_chat(st, start, conn), clientOk)

\* what a run of main() does to the chat dicts: the agent page renders the
\* three tabs, any other page none
RenderChat(st, ch, conn, clientOk) ==
    IF st.rendered = "agent_interface" THEN show_agent_interface(st, ch, conn, clientOk)
    ELSE [ch EXCEPT !.view = "none", !.shown = <<>>, !.acts = {}]

\* the views of the chat tab that show_agent_interface renders once the
\* access check has passed
TabViews == {"chat", "chat_denied", "client_failed", "thread_failed", "not_connected"}

\* the chat input of show_agent_chat, submitted: a conversation id is set
\* for a key that has none; with no thread id the run stops there; otherwise
\* the user message is appended with the thread and conversation ids of the
\* key, process_ai_response sends it on the thread of the key and appends the
\* reply (or, on an exception, appends nothing), st.rerun()
SendChat(user_input, replyOk) ==
    /\ nav.rendered = "agent_interface"
    /\ chat.view = "chat"
    /\ chat.sends < MaxSends
    /\ LET key == AzureAgentId(chat, nav.selected_agent)
           tid == DictGet(chat.thread_ids, key, 0)
           fresh == DictGet(chat.conversation_ids, key, 0) = 0
           cid == IF fresh THEN chat.nextId ELSE chat.conversation_ids[key]
           tag(role, content) ==
               [role |-> role, content |-> content, thread_id |-> tid,
                conversation_id |-> cid, by |-> nav.selected_agent]
           started == [chat EXCEPT
                         !.conversation_ids = Put(chat.conversation_ids, key, cid),
                         !.nextId = IF fresh THEN chat.nextId + 1 ELSE chat.nextId,
                         !.sends = chat.sends + 1,
                         !.acts = {}]
       IN /\ fresh => chat.nextId < MaxIds
          /\ IF tid = 0
             THEN /\ chat' = started
                  /\ nav' = nav
             ELSE /\ chat' = [started EXCEPT
                                !.messages = Put(chat.messages, key,
                                                 DictGet(chat.messages, key, <<>>) \o
                                                     <<tag("user", user_input)>> \o
                                                     (IF replyOk
                                                      THEN <<tag("assistant", "reply")>>
                                                      ELSE <<>>)),
                                !.acts = {Act(nav, "send")}]
                  /\ nav' = [nav EXCEPT !.rendered = "rerun"]
    /\ UNCHANGED exceptNavChat

\* the New Conversation button of show_agent_chat: the message list of the
\* key is emptied, a new conversation id and, if create_thread succeeds, a
\* new thread id are set, st.rerun()
NewConversation(threadOk) ==
    /\ nav.rendered = "agent_interface"
    /\ chat.view = "chat"
    /\ chat.nextId + 1 < MaxIds
    /\ LET key == AzureAgentId(chat, nav.selected_agent)
       IN chat' = [chat EXCEPT
                     !.messages = Put(chat.messages, key, <<>>),
                     !.conversation_ids = Put(chat.conversation_ids, key, chat.nextId),
                     !.thread_ids = IF threadOk THEN Put(chat.thread_ids, key, chat.nextId + 1)
                                    ELSE chat.thread_ids,
                     !.nextId = chat.nextId + 2,
                     !.acts = {Act(nav, "create_thread")}]
    /\ nav' = [nav EXCEPT !.rendered = "rerun"]
    /\ UNCHANGED exceptNavChat

\* the Upload Files button of show_document_management, shown when
\* can_upload: the run renders the chat tab, then the handler initialises the
\* client, uploads the file and ends in st.rerun(); when the constructor
\* raises, the error is shown and the run goes on to the Document Library
ClickUpload(filename, conn, clientOk, fault) ==
    /\ nav.rendered = "agent_interface"
    /\ chat.view \in TabViews
    /\ chat.sends < MaxSends
    /\ CanDocument(nav, nav.selected_agent, "document_upload")
    /\ LET tab1 == show_agent_chat(nav, [chat EXCEPT !.acts = {}, !.sends = chat.sends + 1], conn)
           ready == DocumentClient(nav, tab1, clientOk)
       IN /\ tab1.nextId <= MaxIds
          /\ chat' = ready
          /\ IF nav.selected_agent \in DOMAIN ready.ai_clients
             THEN /\ doc' = Uploaded(doc, filename, "docs-index", fault, TRUE)
                  /\ nav' = [nav EXCEPT !.rendered = "rerun"]
             ELSE /\ doc' = doc
                  /\ nav' = nav
    /\ UNCHANGED <<users, userClient, permQ, agents, agentClient, clock, last,
                   race, send, thr, refs, regen, job>>

\* the Test Connection button of show_agent_settings: the run renders the
\* chat and documents tabs, then the handler constructs a client, which it
\* does not keep, and records under agent_config['id'] whether that raised
ClickTestConnection(conn, clientOk, testOk) ==
    /\ nav.rendered = "agent_interface"
    /\ chat.view \in TabViews
    /\ chat.sends < MaxSends
    /\ LET tabs == show_agent_interface(nav, [chat EXCEPT !.sends = chat.sends + 1], conn, clientOk)
       IN /\ tabs.nextId <= MaxIds
          /\ chat' = [tabs EXCEPT
                        !.connection_status =
                            Put(tabs.connection_status, nav.selected_agent, testOk),
                        !.acts = tabs.acts \cup {Act(nav, "client")}]
    /\ nav' = nav
    /\ UNCHANGED exceptNavChat

\* main(): one run of the script; the page it renders may connect the chat of
\* the selected agent and initialise the client of its Document Library
Main(conn, clientOk) ==
    LET st == Route(initialize_session_state(nav))
        ch == RenderChat(st, chat, conn, clientOk)
    IN /\ ch.nextId <= MaxIds
       /\ nav' = st
       /\ chat' = ch
       /\ UNCHANGED exceptNavChat

\* the Logout button of show_dashboard: every session key but agents and
\* user_manager is deleted, current_page = "login", st.rerun()
ClickLogout ==
    /\ nav.rendered = "dashboard"
    /\ nav' = [SessionDefaults(nav.user_manager) EXCEPT !.cleared = TRUE]
    /\ chat' = ResetSession(chat)
    /\ UNCHANGED exceptNavChat

-----------------------------------------------------------------------------
(* EnhancedAzureAIAgentClient.create_thread *)

\* the number of create_thread invocations in one behaviour
MaxThreadCalls == 3

\* what client.agents.create_thread() gives: it raises, or returns None, an
\* object without id, a thread with an empty id, or a thread with an id
SdkRaises == [raises |-> TRUE]

ThreadObjects == {None, [other |-> TRUE], [id |-> ""], [id |-> "t1"], [id |-> "t2"]}

SdkThreadResults == {SdkRaises} \cup ThreadObjects

\* hasattr(thread, 'id') and thread.id
HasId(thread) == "id" \in DOMAIN thread /\ thread.id # ""

\* log: one entry per invocation
NoThread == [client |-> TRUE, agent |-> TRUE, log |-> <<>>]

\* create_thread with a local substitute thread on failure
create_thread_Fallback(client, agent, sdk) ==
    IF ~client \/ ~agent
    THEN [sdk_calls |-> 0, sdk |-> sdk, raised |-> FALSE, ret |-> [id |-> "local"]]
    ELSE IF sdk # SdkRaises /\ HasId(sdk)
    THEN [sdk_calls |-> 1, sdk |-> sdk, raised |-> FALSE, ret |-> sdk]
    ELSE [sdk_calls |-> 2, sdk |-> sdk, raised |-> FALSE, ret |-> None]

\* create_thread(): the client check, the agent check, one SDK call and the
\* checks of its result, each failure raising
create_thread(client, agent, sdk) ==
    IF ~client THEN [sdk_calls |-> 0, sdk |-> sdk, raised |-> TRUE, ret |-> None]
    ELSE IF ~agent THEN [sdk_calls |-> 0, sdk |-> sdk, raised |-> TRUE, ret |-> None]
    ELSE IF sdk = SdkRaises THEN [sdk_calls |-> 1, sdk |-> sdk, raised |-> TRUE, ret |-> None]
    ELSE IF sdk = None THEN [sdk_calls |-> 1, sdk |-> sdk, raised |-> TRUE, ret |-> None]
    ELSE IF ~HasId(sdk) THEN [sdk_calls |-> 1, sdk |-> sdk, raised |-> TRUE, ret |-> None]
    ELSE [sdk_calls |-> 1, sdk |-> sdk, raised |-> FALSE, ret |-> sdk]

CreateThread(sdk) ==
    /\ Len(thr.log) < MaxThreadCalls
    /\ thr' = [thr EXCEPT !.log = Append(thr.log, create_thread(thr.client, thr.agent, sdk))]
    /\ UNCHANGED exceptThr

-----------------------------------------------------------------------------
(* EnhancedAzureAIAgentClient._process_document_references (citation        *)
(* patterns), _get_filename_by_index and _merge_fragmented_references.       *)
(* A text is its references in order (items) and the text between each two   *)
(* of them (gaps); the text before the first and after the last reference is *)
(* left as it is by every step.  A reference is a '[n:source]' placeholder   *)
(* or a <span class="document-reference"> whose content is an icon followed  *)
(* by parts joined by single spaces.  src, in an item, is the positions of   *)
(* the references of the input it was made from.                             *)

\* the most references a text has
MaxRefs == 3

max_iterations == 10

\* the icons of the spans: the file icon and the link icon
FileIcon == "file"

LinkIcon == "link"

\* the text between two references: raw is its length, stripped the length
\* of between_text.strip(), text the stripped text
Adjacent == [text |-> "", raw |-> 0, stripped |-> 0]

ShortGap == [text |-> "and", raw |-> 5, stripped |-> 3]

MidGap == [text |-> "as well as in the", raw |-> 20, stripped |-> 18]

FarGap == [text |-> "and, further on, in", raw |-> 21, stripped |-> 19]

BlankGap == [text |-> "", raw |-> 25, stripped |-> 0]

Gaps == {Adjacent, ShortGap, MidGap, FarGap, BlankGap}

\* os.path.basename(filename)
Basename(filename) == IF filename = "docs/A.pdf" THEN "A.pdf" ELSE filename

\* content.endswith('.docx') or '.pdf' or '.txt' or '.xlsx'
EndsWithExtension(part) == part \in {"Report.pdf", "A.pdf", "B.docx", "SORUMLULUKLARI.docx"}

\* 'SORUMLULUKLARI', 'BELGE' or 'DOSYA' in content.upper()
HasKeyword(part) ==
    part \in {"Kaynak Dosya 1", "Kaynak Dosya 2", "Kaynak Dosya 3", "SORUMLULUKLARI.docx"}

\* f'Kaynak Dosya {index+1}'
KaynakDosya(index) == <<"Kaynak Dosya 1", "Kaynak Dosya 2", "Kaynak Dosya 3">>[index + 1]

Placeholder(n, pos) == [kind |-> "placeholder", n |-> n, src |-> <<pos>>]

Span(icon, parts, src) == [kind |-> "span", icon |-> icon, parts |-> parts, src |-> src]

\* _get_filename_by_index(filenames_list, index), the content of its span
get_filename_by_index(filenames_list, index) ==
    IF 0 <= index /\ index < Len(filenames_list)
    THEN Basename(filenames_list[index + 1])
    ELSE KaynakDosya(index)

\* should_merge of two consecutive spans: rule 1 (distance), rule 2 (the
\* first does not end with an extension and the second looks like the rest
\* of a file name), rule 3 (the Turkish file name)
ShouldMerge(current, next, gap) ==
    LET current_end == current.parts[Len(current.parts)]
        next_end == next.parts[Len(next.parts)]
    IN \/ gap.raw <= 20
       \/ /\ ~EndsWithExtension(current_end)
          /\ \/ EndsWithExtension(next_end)
             \/ \E i \in 1..Len(next.parts) : HasKeyword(next.parts[i])
       \/ /\ \E i \in 1..Len(current.parts) : current.parts[i] = "ARAC KULLANICI"
          /\ \E i \in 1..Len(next.parts) : next.parts[i] = "SORUMLULUKLARI.docx"

\* combined_content of the merge loop keeping no text between
Combined_NoBetween(current, next, gap) ==
    Span(FileIcon, current.parts \o next.parts, current.src \o next.src)

\* combined_content of the merge loop: the file icon, the first content
\* without its icon, the text between when it is 1 to 10 characters long,
\* the second content without its icon
Combined(current, next, gap) ==
    Span(FileIcon,
         current.parts \o
             (IF gap.stripped > 0 /\ gap.stripped <= 10 THEN <<gap.text>> ELSE <<>>) \o
             next.parts,
         current.src \o next.src)

\* the text with the spans i and i+1 and the gap between replaced by one span
Replace2(t, i, span) ==
    [items |-> SubSeq(t.items, 1, i - 1) \o <<span>> \o SubSeq(t.items, i + 2, Len(t.items)),
     gaps |-> SubSeq(t.gaps, 1, i - 1) \o SubSeq(t.gaps, i + 1, Len(t.gaps))]

\* the positions whose span and the next should merge
Mergeable(t) ==
    {i \in 1..(Len(t.items) - 1) : ShouldMerge(t.items[i], t.items[i + 1], t.gaps[i])}

\* strategy 2 - the while loop: the first pair that should merge is merged,
\* then the spans are parsed again, at most max_iterations times
RECURSIVE MergeLoop(_, _)
MergeLoop(t, iteration) ==
    IF iteration >= max_iterations \/ Mergeable(t) = {} THEN t
    ELSE LET i == CHOOSE j \in Mergeable(t) : \A k \in Mergeable(t) : j <= k IN
         MergeLoop(Replace2(t, i, Combined(t.items[i], t.items[i + 1], t.gaps[i])),
                   iteration + 1)

\* strategy 3 - re.sub(final_pattern, final_merge): from position i on, each
\* two spans with only white space between become one, without overlap
RECURSIVE FinalMerge(_, _)
FinalMerge(t, i) ==
    IF i >= Len(t.items) THEN t
    ELSE IF t.gaps[i].stripped = 0
    THEN FinalMerge(Replace2(t, i, Span(FileIcon,
                                        t.items[i].parts \o t.items[i + 1].parts,
                                        t.items[i].src \o t.items[i + 1].src)),
                    i + 1)
    ELSE FinalMerge(t, i + 1)

\* _merge_fragmented_references(text)
merge_fragmented_references(t) ==
    IF Len(t.items) <= 1 THEN t ELSE FinalMerge(MergeLoop(t, 0), 1)

\* the citation patterns of _process_document_references (method 2) on a
\* text of '[n:source]' placeholders, before the merge
ReplacePlaceholders(t, filenames_list) ==
    [t EXCEPT !.items =
        [i \in DOMAIN t.items |->
            Span(FileIcon,
                 <<IF filenames_list # <<>>
                   THEN get_filename_by_index(filenames_list, t.items[i].n)
                   ELSE KaynakDosya(t.items[i].n)>>,
                 t.items[i].src)]]

\* _process_document_references(response_text, message) for a message
\* without annotations; filenames_list is list(file_mapping.values())
process_document_references(t, filenames_list) ==
    merge_fragmented_references(ReplacePlaceholders(t, filenames_list))

NoText == [items |-> <<>>, gaps |-> <<>>]

NoRefs == [op |-> "none", text |-> NoText, mapping |-> <<>>, result |-> NoText]

\* the texts with the given references and gaps from Gaps
TextsOver(itemSeqs) ==
    UNION {{[items |-> s, gaps |-> g] : g \in [1..(Len(s) - 1) -> Gaps]} : s \in itemSeqs}

\* texts of 1..MaxRefs placeholders '[0:source]' or '[1:source]'
PlaceholderTexts ==
    TextsOver(UNION {{[i \in 1..n |-> Placeholder(c[i], i)] : c \in [1..n -> {0, 1}]} :
                        n \in 1..MaxRefs})

\* list(file_mapping.values())
Mappings == {<<>>, <<"Report.pdf">>, <<"docs/A.pdf", "B.docx">>}

\* the spans of the texts given to the merge
SpanChoices ==
    {<<LinkIcon, "ARAC KULLANICI">>, <<FileIcon, "SORUMLULUKLARI.docx">>,
     <<FileIcon, "A.pdf">>, <<FileIcon, "Notes">>}

\* texts of 1..MaxRefs spans
SpanTexts ==
    TextsOver(UNION {{[i \in 1..n |-> Span(c[i][1], <<c[i][2]>>, <<i>>)] :
                         c \in [1..n -> SpanChoices]} : n \in 1..MaxRefs})

ProcessReferences(t, filenames_list) ==
    /\ refs.op = "none"
    /\ refs' = [op |-> "process", text |-> t, mapping |-> filenames_list,
                result |-> process_document_references(t, filenames_list)]
    /\ UNCHANGED exceptRefs

MergeReferences(t) ==
    /\ refs.op = "none"
    /\ refs' = [op |-> "merge", text |-> t, mapping |-> <<>>,
                result |-> merge_fragmented_references(t)]
    /\ UNCHANGED exceptRefs

-----------------------------------------------------------------------------
(* Duplicate-response regeneration: process_ai_response, is_duplicate_response *)
(* and register_response of ui_components.py, for one agent and one user      *)
(* input u.  The input of a call is written as the number of copies of the    *)
(* suffix ' [Lütfen farklı bir perspektiften yaklaş]' appended to u; inputs   *)
(* with different numbers have different normalized keys.                     *)

\* the entries register_response keeps per agent
registry_limit == 20

\* the number of user inputs in one behaviour
MaxInputs == 2

\* the first 200 characters of the cleaned response content
Responses == {"", "A", "B"}

\* response_hashes[agent_id] after n inputs u that were each answered "A":
\* the entries for u with 0 .. n-1 suffixes, in insertion order
Chain(n) == [i \in 1..n |-> [input |-> i - 1, content |-> "A"]]

\* log: what each backend call of the process_ai_response in progress, or of
\* the last one, came to; history: the assistant messages appended
NoRegen == [registry |-> <<>>, pc |-> "idle", input |-> 0, log |-> <<>>,
            history |-> <<>>, inputs |-> 0]

\* response_hashes[agent_id].get(normalized_input)
Stored(registry, input) ==
    IF \E i \in 1..Len(registry) : registry[i].input = input
    THEN (CHOOSE e \in {registry[i] : i \in 1..Len(registry)} : e.input = input).content
    ELSE NoneStr

\* is_duplicate_response(content, agent_id, user_input)
is_duplicate_response(registry, content, input) ==
    LET stored_content == Stored(registry, input)
    IN TruthyStr(stored_content) /\ stored_content = content

\* register_response keeping every entry
register_response_Unbounded(registry, content, input) ==
    IF \E i \in 1..Len(registry) : registry[i].input = input
    THEN [i \in 1..Len(registry) |->
              IF registry[i].input = input THEN [registry[i] EXCEPT !.content = content]
              ELSE registry[i]]
    ELSE Append(registry, [input |-> input, content |-> content])

\* register_response(content, agent_id, user_input): the entry of the input
\* is set (a new key goes last), and the last registry_limit entries are kept
register_response(registry, content, input) ==
    LET set == IF \E i \in 1..Len(registry) : registry[i].input = input
               THEN [i \in 1..Len(registry) |->
                         IF registry[i].input = input
                         THEN [registry[i] EXCEPT !.content = content]
                         ELSE registry[i]]
               ELSE Append(registry, [input |-> input, content |-> content])
    IN IF Len(set) > registry_limit
       THEN SubSeq(set, Len(set) - registry_limit + 1, Len(set))
       ELSE set

\* the chat input handler calls process_ai_response(user_input, ...)
UserInput ==
    /\ regen.pc = "idle"
    /\ regen.inputs < MaxInputs
    /\ regen' = [regen EXCEPT !.pc = "calling", !.input = 0, !.log = <<>>,
                              !.inputs = regen.inputs + 1]
    /\ UNCHANGED exceptRegen

\* one level of process_ai_response: the backend call raises, and the error
\* message is returned; or its response is a duplicate, and the level calls
\* process_ai_response with the input one suffix longer; or the response is
\* registered, appended to the history when the thread id is there, and
\* returned
Respond(content, raises, threadOk) ==
    /\ regen.pc = "calling"
    /\ Len(regen.log) <= registry_limit + 2
    /\ regen' =
         IF raises
         THEN [regen EXCEPT !.pc = "idle", !.log = Append(regen.log, "raised")]
         ELSE IF is_duplicate_response(regen.registry, content, regen.input)
         THEN [regen EXCEPT !.input = regen.input + 1,
                            !.log = Append(regen.log, "duplicate")]
         ELSE [regen EXCEPT
                 !.pc = "idle",
                 !.registry = register_response(regen.registry, content, regen.input),
                 !.log = Append(regen.log, "registered"),
                 !.history = IF threadOk
                             THEN Append(regen.history, content)
                             ELSE regen.history]
    /\ UNCHANGED exceptRegen
-----------------------------------------------------------------------------
(* The generated WebJob script run.py of webjob_generator.py *)

\* DATA_FILES of the generated script: the configured data files, in order
DATA_FILES == <<"d1.csv", "d2.csv">>

\* the number of runs of the script the model follows
MaxRuns == 2

\* the outcomes of attach_file_to_agent's calls to the agent service: get_agent or update_agent
\* raises; update_agent succeeds and a verification read shows the file; update_agent succeeds
\* and the three verification reads raise or do not show the file
AttachOutcomes == {"update_raises", "verified", "unverified"}

\* the outcomes of reading the data file from blob storage
BlobOutcomes == {"missing", "raises", "ok"}

\* the agent as the agent service holds it
Agent(code_files, vector_store_ids, tools) ==
    [code_files |-> code_files, vector_store_ids |-> vector_store_ids, tools |-> tools]

NoJob ==
    [agent |-> Agent(<<>>, <<>>, <<>>), before |-> Agent(<<>>, <<>>, <<>>), pc |-> "idle", idx |-> 0,
     uploaded_file_ids |-> <<>>, processed_count |-> 0, error_count |-> 0, attached |-> <<>>,
     exit |-> NoneStr, files |-> 0, runs |-> 0]

\* attach_file_to_agent(ai_client, agent_id, file_id, clear_existing): the agent afterwards and the value returned
attach_file_to_agent(agent, file_id, clear_existing, outcome) ==
    LET new_code_interpreter_files ==
            IF clear_existing THEN <<file_id>> ELSE agent.code_files \o <<file_id>>
        updated == Agent(new_code_interpreter_files, agent.vector_store_ids, agent.tools)
    IN  CASE outcome = "update_raises" -> [agent |-> agent, ret |-> FALSE]
          [] outcome = "verified" -> [agent |-> updated, ret |-> TRUE]
          [] outcome = "unverified" -> [agent |-> updated, ret |-> FALSE]

\* process_data_files up to the loop: the connection strings, the agent id and the agent are looked up
StartRun(setupOk) ==
    /\ job.pc = "idle"
    /\ job.runs < MaxRuns
    /\ job' = IF setupOk
              THEN [job EXCEPT !.pc = "files", !.idx = 1, !.uploaded_file_ids = <<>>,
                               !.processed_count = 0, !.error_count = 0, !.attached = <<>>,
                               !.before = job.agent, !.exit = NoneStr, !.runs = @ + 1]
              ELSE [job EXCEPT !.uploaded_file_ids = <<>>, !.processed_count = 0, !.error_count = 0,
                               !.attached = <<>>, !.before = job.agent, !.exit = "1", !.runs = @ + 1]
    /\ UNCHANGED exceptJob

\* one iteration of the loop over DATA_FILES
ProcessFile(blob, uploadOk, outcome) ==
    /\ job.pc = "files"
    /\ LET filename == DATA_FILES[job.idx]
           file_id == job.files + 1
           clear_existing == Len(job.uploaded_file_ids) = 0
           r == attach_file_to_agent(job.agent, file_id, clear_existing, outcome)
           next == [job EXCEPT !.idx = @ + 1,
                               !.pc = IF job.idx = Len(DATA_FILES) THEN "summary" ELSE "files"]
       IN  job' = IF blob # "ok" \/ ~uploadOk
                  THEN [next EXCEPT !.error_count = @ + 1]
                  ELSE IF r.ret
                  THEN [next EXCEPT !.agent = r.agent, !.files = file_id,
                                    !.uploaded_file_ids = Append(@, [filename |-> filename, file_id |-> file_id]),
                                    !.processed_count = @ + 1,
                                    !.attached = Append(@, clear_existing)]
                  ELSE [next EXCEPT !.agent = r.agent, !.files = file_id, !.error_count = @ + 1]
    /\ UNCHANGED exceptJob

\* the execution log is written and the script exits
FinishRun(logOk) ==
    /\ job.pc = "summary"
    /\ job' = [job EXCEPT !.pc = "idle",
                          !.exit = IF ~logOk THEN "1" ELSE IF job.error_count = 0 THEN "0" ELSE "1"]
    /\ UNCHANGED exceptJob

-----------------------------------------------------------------------------
(* Specifications *)

InitPerm ==
    /\ job = NoJob
    /\ regen = NoRegen
    /\ refs = NoRefs
    /\ thr = NoThread
    /\ chat = NoChat
    /\ nav = NoNav
    /\ doc = NoDocs
    /\ send = NoSend
    /\ race = NoRace
    /\ userClient \in BOOLEAN
    /\ \E r1 \in {Missing, Garbage} \cup {JsonDumps(d) : d \in PermUserRecords("u1")},
          r0 \in {Missing, JsonDumps(StoredUser("", "admin", [t |-> "list", v |-> <<"all">>]))} :
          users = [n \in UserBlobNames |->
                      IF n = BlobName("u1") THEN r1
                      ELSE IF n = BlobName("") THEN r0 ELSE Missing]
    /\ permQ = NoQuery
    /\ agents = [n \in AgentBlobNames |-> Missing]
    /\ agentClient = TRUE
    /\ clock = 0
    /\ last = NoCall

NextPerm ==
    \E u \in UserArgs, a \in PermAgents, p \in PermActions, fault \in BOOLEAN :
        HasPermissionCall(u, a, p, fault)

SpecPerm == InitPerm /\ [][NextPerm]_vars

InitAgents ==
    /\ job = NoJob
    /\ regen = NoRegen
    /\ refs = NoRefs
    /\ thr = NoThread
    /\ chat = NoChat
    /\ nav = NoNav
    /\ doc = NoDocs
    /\ send = NoSend
    /\ race = NoRace
    /\ agentClient \in BOOLEAN
    /\ agents \in {[n \in AgentBlobNames |-> Missing],
                   [n \in AgentBlobNames |-> IF n = BlobName("") THEN Garbage ELSE Missing]}
    /\ clock = 0
    /\ last = NoCall
    /\ users = [n \in UserBlobNames |-> Missing]
    /\ userClient = TRUE
    /\ permQ = NoQuery

NextAgents ==
    \/ \E cfg \in AgentCfgs, fault \in BOOLEAN : AddAgent(cfg, fault)
    \/ \E i \in AgentIds, cfg \in AgentCfgs, rf \in BOOLEAN, wf \in BOOLEAN :
            UpdateAgent(i, cfg, rf, wf)
    \/ \E i \in AgentIds, fault \in BOOLEAN : DeleteAgent(i, fault)
    \/ \E i \in AgentIds, st \in {"active", "inactive"},
          f1 \in BOOLEAN, rf \in BOOLEAN, wf \in BOOLEAN :
            SetAgentStatus(i, st, f1, rf, wf)
    \/ \E i \in AgentIds, fault \in BOOLEAN : GetAgent(i, fault)
    \/ \E lf \in BOOLEAN, ef \in SUBSET AgentIds : GetAllAgents(lf, ef)
    \/ \E lf \in BOOLEAN, ef \in SUBSET AgentIds : GetActiveAgents(lf, ef)

SpecAgents == InitAgents /\ [][NextAgents]_vars

\* the dicts the calls of SpecStore are made with
StoreCfgs == {cfg \in AgentCfgs : "enabled" \notin DOMAIN cfg}

StorePerms == {NonePerms, [t |-> "list", v |-> <<"scm:chat">>]}

InitStore ==
    /\ job = NoJob
    /\ regen = NoRegen
    /\ refs = NoRefs
    /\ thr = NoThread
    /\ chat = NoChat
    /\ nav = NoNav
    /\ doc = NoDocs
    /\ send = NoSend
    /\ race = NoRace
    /\ agentClient \in BOOLEAN
    /\ userClient = agentClient
    /\ \E b \in {Missing, Garbage, NonObject} :
          /\ agents = [n \in AgentBlobNames |-> IF n = BlobName("a") THEN b ELSE Missing]
          /\ users = [n \in UserBlobNames |-> IF n = BlobName("u1") THEN b ELSE Missing]
    /\ clock = 0
    /\ last = NoCall
    /\ permQ = NoQuery

NextStore ==
    \/ \E cfg \in StoreCfgs, fault \in BOOLEAN : AddAgent(cfg, fault)
    \/ \E i \in AgentIds, cfg \in StoreCfgs, rf \in BOOLEAN, wf \in BOOLEAN :
            UpdateAgent(i, cfg, rf, wf)
    \/ \E i \in AgentIds, fault \in BOOLEAN : DeleteAgent(i, fault)
    \/ \E i \in AgentIds, st \in {"active", "inactive"},
          f1 \in BOOLEAN, rf \in BOOLEAN, wf \in BOOLEAN :
            SetAgentStatus(i, st, f1, rf, wf)
    \/ \E i \in AgentIds, fault \in BOOLEAN : GetAgent(i, fault)
    \/ \E lf \in BOOLEAN, ef \in SUBSET AgentIds : GetAllAgents(lf, ef)
    \/ \E lf \in BOOLEAN, ef \in SUBSET AgentIds : GetActiveAgents(lf, ef)
    \/ \E u \in Usernames, role \in {"standard", "admin"}, pw \in {NoneStr, "pw"},
          perms \in StorePerms, fault \in BOOLEAN :
            AddUser(u, role, pw, perms, fault)
    \/ \E u \in Usernames, pw \in {NoneStr, "pw"}, fault \in BOOLEAN :
            CreateAdminUser(u, pw, fault)
    \/ \E u \in Usernames, perms \in StorePerms \ {NonePerms},
          rf \in BOOLEAN, wf \in BOOLEAN :
            UpdateUserPermissions(u, perms, rf, wf)
    \/ \E u \in Usernames, fault \in BOOLEAN : DeleteUser(u, fault)
    \/ \E u \in Usernames, fault \in BOOLEAN : GetUser(u, fault)
    \/ \E lf \in BOOLEAN, ef \in SUBSET Usernames : GetAllUsers(lf, ef)
    \/ \E u \in Usernames, pw \in {NoneStr, "pw"}, fault \in BOOLEAN :
            AuthenticateAdmin(u, pw, fault)

SpecStore == InitStore /\ [][NextStore]_vars

\* both stores hold one record, written by add_agent / add_user at time 0
InitRace ==
    /\ job = NoJob
    /\ regen = NoRegen
    /\ refs = NoRefs
    /\ thr = NoThread
    /\ chat = NoChat
    /\ nav = NoNav
    /\ doc = NoDocs
    /\ send = NoSend
    /\ race = NoRace
    /\ agentClient = TRUE
    /\ userClient = TRUE
    /\ agents = [n \in AgentBlobNames |->
                    IF n = BlobName("a")
                    THEN JsonDumps(AddAgentRecord(("id" :> "a") @@ ("name" :> "n1"), 0))
                    ELSE Missing]
    /\ users = [n \in UserBlobNames |->
                    IF n = BlobName("u1")
                    THEN JsonDumps(AddUserRecord("u1", "standard", "pw", NonePerms, 0))
                    ELSE Missing]
    /\ clock = 1
    /\ last = NoCall
    /\ permQ = NoQuery

NextRace ==
    \/ \E s \in Sessions, i \in AgentIds, cfg \in RaceCfgs : StartUpdateAgent(s, i, cfg)
    \/ \E s \in Sessions, i \in AgentIds, st \in {"active", "inactive"} :
            StartSetAgentStatus(s, i, st)
    \/ \E s \in Sessions : RereadAgent(s)
    \/ \E s \in Sessions : UploadAgent(s)
    \/ \E s \in Sessions, u \in Usernames, perms \in RacePerms :
            StartUpdateUserPermissions(s, u, perms)
    \/ \E s \in Sessions : UploadUser(s)
    \/ \E s \in Sessions, i \in AgentIds : SessionDeleteAgent(s, i)

SpecRace == InitRace /\ [][NextRace]_vars

InitSend ==
    /\ job = NoJob
    /\ regen = NoRegen
    /\ refs = NoRefs
    /\ thr = NoThread
    /\ chat = NoChat
    /\ nav = NoNav
    /\ send = NoSend
    /\ doc = NoDocs
    /\ race = NoRace
    /\ agentClient = TRUE
    /\ userClient = TRUE
    /\ agents = [n \in AgentBlobNames |-> Missing]
    /\ users = [n \in UserBlobNames |-> Missing]
    /\ clock = 0
    /\ last = NoCall
    /\ permQ = NoQuery

NextSend ==
    \/ \E t \in ThreadIds, m \in UserMessages, c \in BOOLEAN, a \in AgentStates :
            SendCall(t, m, c, a)
    \/ \E o \in SdkOutcomes : SendPost(o)
    \/ \E o \in SdkOutcomes : SendRun(o)
    \/ \E o \in SdkOutcomes, shape \in {"data", "text_messages", "neither"},
          r \in {"", "answer"}, cited \in BOOLEAN : SendList(o, shape, r, cited)
    \/ SendReturn

SpecSend == InitSend /\ [][NextSend]_vars

InitDoc ==
    /\ job = NoJob
    /\ regen = NoRegen
    /\ refs = NoRefs
    /\ thr = NoThread
    /\ chat = NoChat
    /\ nav = NoNav
    /\ doc = NoDocs
    /\ send = NoSend
    /\ race = NoRace
    /\ agentClient = TRUE
    /\ userClient = TRUE
    /\ agents = [n \in AgentBlobNames |-> Missing]
    /\ users = [n \in UserBlobNames |-> Missing]
    /\ clock = 0
    /\ last = NoCall
    /\ permQ = NoQuery

NextDoc ==
    \/ \E f \in Files, ix \in IndexNames, bf \in BOOLEAN, r1 \in SUBSET AllChunks,
          ro \in BOOLEAN, r3 \in SUBSET AllChunks :
            DeleteDocument(f, ix, bf, r1, ro, r3)
    \/ \E f \in Files, fault \in BOOLEAN : UploadDocument(f, fault)
    \/ \E f \in Files, ix \in IndexNames, fault \in BOOLEAN, ro \in BOOLEAN :
            UploadAndIndexDocument(f, ix, fault, ro)
    \/ \E f \in Files, o1 \in TierOutcomes, o2 \in TierOutcomes, o3 \in TierOutcomes,
          r1 \in SUBSET AllChunks, r3 \in SUBSET AllChunks :
            StandardIndexDeletion(f, o1, o2, o3, r1, r3)

SpecDoc == InitDoc /\ [][NextDoc]_vars

\* a fresh session; the user store holds a standard user u1 with access to
\* scm and, or not, an admin
InitNav ==
    /\ job = NoJob
    /\ regen = NoRegen
    /\ refs = NoRefs
    /\ thr = NoThread
    /\ chat = NoChat
    /\ \E um \in BOOLEAN : nav = SessionDefaults(um)
    /\ doc = NoDocs
    /\ send = NoSend
    /\ race = NoRace
    /\ agentClient = TRUE
    /\ userClient = TRUE
    /\ agents = [n \in AgentBlobNames |-> Missing]
    /\ \E adminBlob \in {Missing, JsonDumps(AddUserRecord("admin", "admin", "pw", NonePerms, 0))} :
       \E p \in {<<"scm:access">>, <<"scm:access", "scm:chat">>} :
          users = [n \in UserBlobNames |->
                      IF n = BlobName("u1")
                      THEN JsonDumps(AddUserRecord("u1", "standard", "pw",
                                        [t |-> "list", v |-> p], 0))
                      ELSE IF n = BlobName("admin") THEN adminBlob
                      ELSE Missing]
    /\ clock = 1
    /\ last = NoCall
    /\ permQ = NoQuery

NextNav ==
    \/ \E conn \in ConnectOutcomes, ok \in BOOLEAN : Main(conn, ok)
    \/ \E u \in {"u1", "admin"}, pw \in {"pw", "bad"} : LoginAdmin(u, pw)
    \/ \E u \in {"u1", "admin", ""}, ok \in BOOLEAN : LoginAzure(u, ok)
    \/ ClickSettings
    \/ ClickLogout
    \/ \E a \in NavAgents : OpenAgent(a)
    \/ BackToDashboard

SpecNav == InitNav /\ [][NextNav]_vars

\* AZURE_AI_AGENT_ID and the agent_id fields of the two configured agents
ChatEnvs == {NoneStr, "asst_env"}

ChatCfgs ==
    {[a \in NavAgents |-> ""],
     [a \in NavAgents |-> "asst_1"],
     [a \in NavAgents |-> IF a = "scm" THEN "asst_1" ELSE "asst_2"]}

\* the permission list of the standard user u1: access and chat on both
\* agents
ChatPerms == {<<"scm:access", "scm:chat", "it:access", "it:chat">>}

\* a fresh session; the user store holds an admin and a standard user u1
SessionStart(envs, cfgs, permLists) ==
    /\ regen = NoRegen
    /\ job = NoJob
    /\ refs = NoRefs
    /\ thr = NoThread
    /\ \E e \in envs, c \in cfgs : chat = [NoChat EXCEPT !.env = e, !.cfg = c]
    /\ nav = SessionDefaults(TRUE)
    /\ doc = NoDocs
    /\ send = NoSend
    /\ race = NoRace
    /\ agentClient = TRUE
    /\ userClient = TRUE
    /\ agents = [n \in AgentBlobNames |-> Missing]
    /\ \E perms \in permLists :
         users = [n \in UserBlobNames |->
                   IF n = BlobName("u1")
                   THEN JsonDumps(AddUserRecord("u1", "standard", "pw",
                                     [t |-> "list", v |-> perms], 0))
                   ELSE IF n = BlobName("admin")
                   THEN JsonDumps(AddUserRecord("admin", "admin", "pw", NonePerms, 0))
                   ELSE Missing]
    /\ clock = 1
    /\ last = NoCall
    /\ permQ = NoQuery

InitChat == SessionStart(ChatEnvs, ChatCfgs, ChatPerms)

NextChat ==
    \/ \E conn \in ConnectOutcomes, ok \in BOOLEAN : Main(conn, ok)
    \/ \E u \in {"u1", "admin"} : LoginAzure(u, TRUE)
    \/ ClickLogout
    \/ \E a \in NavAgents : OpenAgent(a)
    \/ BackToDashboard
    \/ \E ok \in BOOLEAN : SendChat("hello", ok)
    \/ \E ok \in BOOLEAN : NewConversation(ok)

SpecChat == InitChat /\ [][NextChat]_vars

\* the three tabs of the agent page with their buttons.  u1 has access to
\* both agents and a document permission on scm, with or without chat on scm;
\* AZURE_AI_AGENT_ID is unset and scm has an agent_id field or none
TabCfgs ==
    {[a \in NavAgents |-> ""],
     [a \in NavAgents |-> IF a = "scm" THEN "asst_1" ELSE ""]}

TabPerms ==
    {<<"scm:access", "scm:chat", "scm:document_upload", "it:access", "it:chat">>,
     <<"scm:access", "scm:document_upload", "it:access", "it:chat">>}

InitTabs == SessionStart({NoneStr}, TabCfgs, TabPerms)

NextTabs ==
    \/ \E conn \in ConnectOutcomes, ok \in BOOLEAN : Main(conn, ok)
    \/ \E u \in {"u1", "admin"} : LoginAzure(u, TRUE)
    \/ ClickLogout
    \/ \E a \in NavAgents : OpenAgent(a)
    \/ BackToDashboard
    \/ \E ok \in BOOLEAN : SendChat("hello", ok)
    \/ \E conn \in ConnectOutcomes, ok \in BOOLEAN, fault \in BOOLEAN :
            ClickUpload("a.pdf", conn, ok, fault)
    \/ \E conn \in ConnectOutcomes, ok \in BOOLEAN, testOk \in BOOLEAN :
            ClickTestConnection(conn, ok, testOk)

SpecTabs == InitTabs /\ [][NextTabs]_vars

\* a client object whose client and agent attributes are set or None
InitThread ==
    /\ job = NoJob
    /\ regen = NoRegen
    /\ refs = NoRefs
    /\ \E c \in BOOLEAN, a \in BOOLEAN : thr = [NoThread EXCEPT !.client = c, !.agent = a]
    /\ chat = NoChat
    /\ nav = NoNav
    /\ doc = NoDocs
    /\ send = NoSend
    /\ race = NoRace
    /\ agentClient = TRUE
    /\ userClient = TRUE
    /\ agents = [n \in AgentBlobNames |-> Missing]
    /\ users = [n \in UserBlobNames |-> Missing]
    /\ clock = 1
    /\ last = NoCall
    /\ permQ = NoQuery

NextThread == \E sdk \in SdkThreadResults : CreateThread(sdk)

SpecThread == InitThread /\ [][NextThread]_vars

\* no text processed yet
InitRefs ==
    /\ job = NoJob
    /\ regen = NoRegen
    /\ refs = NoRefs
    /\ thr = NoThread
    /\ chat = NoChat
    /\ nav = NoNav
    /\ doc = NoDocs
    /\ send = NoSend
    /\ race = NoRace
    /\ agentClient = TRUE
    /\ userClient = TRUE
    /\ agents = [n \in AgentBlobNames |-> Missing]
    /\ users = [n \in UserBlobNames |-> Missing]
    /\ clock = 1
    /\ last = NoCall
    /\ permQ = NoQuery

NextRefs == \E t \in PlaceholderTexts, m \in Mappings : ProcessReferences(t, m)

SpecRefs == InitRefs /\ [][NextRefs]_vars

NextMerge == \E t \in SpanTexts : MergeReferences(t)

SpecMerge == InitRefs /\ [][NextMerge]_vars

\* the registry is empty, or holds what registry_limit inputs u answered
\* alike have left in it
InitRegen ==
    /\ \E n \in {0, registry_limit} :
           regen = [NoRegen EXCEPT !.registry = Chain(n)]
    /\ job = NoJob
    /\ refs = NoRefs
    /\ thr = NoThread
    /\ chat = NoChat
    /\ nav = NoNav
    /\ doc = NoDocs
    /\ send = NoSend
    /\ race = NoRace
    /\ agentClient = TRUE
    /\ userClient = TRUE
    /\ agents = [n \in AgentBlobNames |-> Missing]
    /\ users = [n \in UserBlobNames |-> Missing]
    /\ clock = 0
    /\ last = NoCall
    /\ permQ = NoQuery

NextRegen ==
    \/ UserInput
    \/ \E content \in Responses, raises \in BOOLEAN, threadOk \in BOOLEAN :
           Respond(content, raises, threadOk)

SpecRegen == InitRegen /\ [][NextRegen]_vars

\* a backend call that was made returns or raises
SpecRegenLive == SpecRegen /\ WF_vars(NextRegen)

(* The generated WebJob script: runs of process_data_files over one agent *)

InitJob ==
    /\ regen = NoRegen
    /\ refs = NoRefs
    /\ thr = NoThread
    /\ chat = NoChat
    /\ nav = NoNav
    /\ doc = NoDocs
    /\ send = NoSend
    /\ race = NoRace
    /\ agentClient = TRUE
    /\ userClient = TRUE
    /\ agents = [n \in AgentBlobNames |-> Missing]
    /\ users = [n \in UserBlobNames |-> Missing]
    /\ clock = 0
    /\ last = NoCall
    /\ permQ = NoQuery
    /\ \E old \in {<<>>, <<"old">>}, vs \in {<<>>, <<"vs1">>} :
           job = [NoJob EXCEPT !.agent = Agent(old, vs, <<"code_interpreter">> \o (IF vs = <<>> THEN <<>> ELSE <<"file_search">>)),
                               !.before = Agent(old, vs, <<"code_interpreter">> \o (IF vs = <<>> THEN <<>> ELSE <<"file_search">>))]

NextJob ==
    \/ \E setupOk \in BOOLEAN : StartRun(setupOk)
    \/ \E blob \in BlobOutcomes, uploadOk \in BOOLEAN, outcome \in AttachOutcomes : ProcessFile(blob, uploadOk, outcome)
    \/ \E logOk \in BOOLEAN : FinishRun(logOk)

SpecJob == InitJob /\ [][NextJob]_vars

-----------------------------------------------------------------------------
(* Claims about the permission check, under SpecPerm *)

\* the permissions and role of the record a has_permission call read
QPerms == DictGet(permQ.user, "permissions", EmptyList)

QRole == DictGet(permQ.user, "role", "user")

QNonEmptyArgs == TruthyStr(permQ.username) /\ TruthyStr(permQ.agent_id)

\* C1: for non-empty username and agent_id, when the user read is not an
\* admin and its permissions are a list without 'all', has_permission returns
\* True exactly when the action or "<agent_id>:<action>" is in the list (so
\* "scm:chat" grants chat on scm and not on it, and a bare "chat" grants chat
\* on every agent); a user that is not found gets False.
C1_PermissionList ==
    (permQ.called /\ QNonEmptyArgs) =>
        /\ (permQ.user # None /\ QRole # "admin" /\ QPerms.t = "list"
                /\ ~InList("all", QPerms.v))
            => (permQ.result = TRUE <=>
                    \/ \E i \in 1..Len(QPerms.v) : QPerms.v[i] = permQ.action
                    \/ \E i \in 1..Len(QPerms.v) :
                            QPerms.v[i] = permQ.agent_id \o ":" \o permQ.action)
        /\ (permQ.user # None /\ QRole # "admin" /\ QPerms = [t |-> "list", v |-> <<"scm:chat">>]
                /\ permQ.action = "chat")
            => (permQ.result = TRUE <=> permQ.agent_id = "scm")
        /\ (permQ.user # None /\ QRole # "admin" /\ QPerms = [t |-> "list", v |-> <<"chat">>]
                /\ permQ.action = "chat")
            => permQ.result = TRUE
        /\ permQ.user = None => permQ.result = FALSE

\* a standard user holding ["scm:chat"] is granted chat on scm
C1_Witness ==
    /\ permQ.called /\ permQ.username = "u1" /\ permQ.agent_id = "scm"
    /\ permQ.action = "chat" /\ permQ.user # None /\ QRole = "standard"
    /\ QPerms = [t |-> "list", v |-> <<"scm:chat">>]
    /\ permQ.result = TRUE

\* the record stored for the user a call names, None when none can be read
QStored ==
    IF permQ.username \in UserArgs
    THEN ReadBlob(users, permQ.username, userClient, FALSE) ELSE None

\* C2 as stated: for a stored user whose role is 'admin', has_permission
\* returns True for every (agent_id, action) pair.  (A call whose read of the
\* store failed is left out: it did not see the stored user.)
C2_AdminEveryPair ==
    (permQ.called /\ QStored # None /\ DictGet(QStored, "role", "user") = "admin"
        /\ ~(permQ.read /\ permQ.user = None))
        => permQ.result = TRUE

\* C2, amended: for non-empty username and agent_id, a call that read a user
\* whose role is 'admin' returns True for every action, whatever the
\* permissions value is (empty list, dict, unrelated entries, absent).
C2_AdminNonEmptyArgs ==
    (permQ.called /\ QNonEmptyArgs /\ permQ.user # None /\ QRole = "admin")
        => permQ.result = TRUE

\* an admin with an empty permissions list is granted chat on an agent
C2_Witness ==
    /\ permQ.called /\ QNonEmptyArgs /\ permQ.user # None /\ QRole = "admin"
    /\ QPerms = EmptyList /\ permQ.result = TRUE

-----------------------------------------------------------------------------
(* Claims about the agent store, under SpecAgents *)

\* what add_agent(cfg) leaves for get_agent to return
AddedRecordOf(cfg, rec) ==
    /\ IsDict(rec)
    /\ DOMAIN rec = DOMAIN cfg \cup {"created_at", "updated_at", "status", "enabled"}
    /\ \A k \in DOMAIN cfg : rec[k] = cfg[k]
    /\ "status" \notin DOMAIN cfg => rec["status"] = "active"
    /\ "enabled" \notin DOMAIN cfg => rec["enabled"] = TRUE
    /\ rec["created_at"] = rec["updated_at"]

\* C3: after add_agent(cfg) returns True (cfg then has a non-empty id),
\* get_agent(cfg.id) returns cfg plus created_at and updated_at, with status
\* 'active' and enabled True only where cfg did not supply them; add_agent
\* with a missing or empty id returns False and leaves the container as it was.
C3_AddThenGet ==
    [][\A cfg \in AgentCfgs, fault \in BOOLEAN :
          AddAgent(cfg, fault) =>
            LET agent_id == DictGet(cfg, "id", NoneStr) IN
            /\ last'.ok => /\ TruthyStr(agent_id)
                           /\ AddedRecordOf(cfg, get_agent(agent_id, FALSE)')
            /\ ~TruthyStr(agent_id) => ~last'.ok /\ agents' = agents]_vars

\* an add_agent that returned True for a cfg supplying status 'inactive' and
\* no enabled: the stored record keeps the status and gets enabled True
C3_Witness ==
    /\ last.op = "add_agent" /\ last.ok
    /\ LET rec == get_agent(last.id, FALSE) IN
       /\ TruthyDict(rec)
       /\ rec["status"] = "inactive"
       /\ rec["enabled"] = TRUE
       /\ rec["updated_at"] = clock - 1

\* no record of agent_id: the blob is missing, get_agent gives None and
\* get_all_agents has no entry for it
Absent(agent_id) ==
    /\ agents[BlobName(agent_id)] = Missing
    /\ get_agent(agent_id, FALSE) = None
    /\ agent_id \notin DOMAIN get_all_agents(FALSE, {})

\* C4: after delete_agent(id) returns True the record is absent (get_agent
\* gives None, get_all_agents has no entry), and an absent record stays absent
\* on every step but an add_agent / update_agent of that id that returned
\* True; delete_agent on an id with no blob returns False and leaves the
\* container as it was.
C4_DeleteThenAbsent ==
    [][\A i \in AgentIds :
          /\ last'.op = "delete_agent" /\ last'.id = i =>
                /\ last'.ok => Absent(i)'
                /\ agents[BlobName(i)] = Missing => ~last'.ok /\ agents' = agents
          /\ Absent(i) /\ ~Absent(i)' =>
                last'.op \in {"add_agent", "update_agent"} /\ last'.ok /\ last'.id = i]_vars

\* a record that was written by the store and then deleted
C4_Witness ==
    /\ last.op = "delete_agent" /\ last.ok /\ last.id = "a"
    /\ clock > 0
    /\ Absent("a")

-----------------------------------------------------------------------------
(* Claims about both stores, under SpecStore *)

WriteOps == {"add_agent", "update_agent", "delete_agent", "set_agent_status",
             "add_user", "create_admin_user", "update_user_permissions",
             "delete_user", "authenticate_admin"}

\* C5: a call in which a storage call raised, or whose client is unset,
\* returns its sentinel (None for get_agent / get_user, {} for a listing whose
\* list_blobs raised, False for add / update / delete), a listing skips the
\* entries whose download raised, and no call raises to its caller.
C5_SentinelOnException ==
    /\ ~last.raised
    /\ last.faults # {} =>
          /\ last.op \in {"get_agent", "get_user"} => last.ret = None
          /\ last.op \in WriteOps => ~last.ok
          /\ "list" \in last.faults => last.ret = EmptyDict
    /\ ~agentClient =>
          /\ \A i \in AgentIds : get_agent(i, FALSE) = None
          /\ get_all_agents(FALSE, {}) = EmptyDict
          /\ last.op \in WriteOps => ~last.ok
    /\ \A ef \in SUBSET AgentIds : \A i \in ef :
          i \notin DOMAIN get_all_agents(FALSE, ef)
    /\ \A ef \in SUBSET Usernames : \A u \in ef :
          u \notin DOMAIN get_all_users(FALSE, ef)

-----------------------------------------------------------------------------
(* Claims about concurrent sessions, under SpecRace *)

\* C8: nothing protects a record against a second writer.  The upload that
\* ends set_agent_status, update_agent or update_user_permissions replaces the
\* stored record with the version the session built from its own earlier
\* read, whatever was written in between, and the call returns True.
C8_UnconditionalWrite ==
    [][\A s \in Sessions :
          race[s].pc = "upload" /\ race'[s].pc = "done" =>
            /\ race'[s].ret = "True"
            /\ IF race[s].op = "update_user_permissions"
               THEN users'[BlobName(race[s].id)] = JsonDumps(race[s].record)
               ELSE agents'[BlobName(race[s].id)] = JsonDumps(race[s].record)]_vars

\* a lost update: update_agent('a', name n2) and set_agent_status('a',
\* 'inactive') both returned True, and the stored record has the status of
\* the second and the name from before the first
C8_Witness ==
    /\ race[1].op = "update_agent" /\ race[1].ret = "True" /\ race[1].id = "a"
    /\ race[1].record["name"] = "n2"
    /\ race[2].op = "set_agent_status" /\ race[2].ret = "True" /\ race[2].id = "a"
    /\ LET stored == get_agent("a", FALSE) IN
       /\ TruthyDict(stored)
       /\ stored["name"] = "n1"
       /\ stored["status"] = "inactive"

-----------------------------------------------------------------------------
(* Claims about send_message_and_get_response, under SpecSend *)

\* C6: one call starts at most max_retries (3) attempts; an attempt is
\* followed by another only if it raised AzureError; an attempt that raised
\* any other exception is the last and the call has returned; a call that has
\* returned has a non-empty string as its result.
C6_BoundedRetry ==
    /\ send.started <= max_retries
    /\ Len(send.log) <= send.started
    /\ \A i \in 1..Len(send.log) :
          /\ i < send.started => send.log[i] = "AzureError"
          /\ send.log[i] = "Exception" =>
                i = send.started /\ send.pc = "done" /\ send.result = GeneralError
    /\ send.pc = "done" => send.result # ""
    /\ send.pc \in {"post", "run", "list"} =>
          send.result = "" /\ Len(send.log) = send.started - 1

\* three attempts, each ended by AzureError: the call returned the
\* connection-error string
C6_Witness ==
    /\ send.pc = "done"
    /\ send.started = 3
    /\ send.log = <<"AzureError", "AzureError", "AzureError">>
    /\ send.result = ConnectionError

-----------------------------------------------------------------------------
(* Claims about document deletion, under SpecDoc *)

\* C7: delete_document returns True exactly when its delete_blob succeeded,
\* whatever the index clean-up achieved, and the blob is then gone; when
\* delete_blob raised (or was not reached) no clean-up tier ran, the index is
\* as before and the result is False.
C7_BlobFirstNoRollback ==
    [][doc'.call.op = "delete_document" /\ doc' # doc =>
          LET deleted == doc'.call.file \in doc.blobs /\ doc'.call.file \notin doc'.blobs IN
          /\ doc'.call.result = deleted
          /\ deleted => Len(doc'.call.tiers) >= 2
          /\ ~deleted =>
                /\ doc'.call.tiers = <<>>
                /\ doc'.chunks = doc.chunks
                /\ doc'.blobs = doc.blobs]_vars

\* True was returned with the blob deleted, all three tiers tried and failed,
\* and every chunk of the file still in the index
C7_Witness ==
    /\ doc.call.op = "delete_document"
    /\ doc.call.result
    /\ doc.call.file = "xa.pdf"
    /\ "xa.pdf" \notin doc.blobs
    /\ doc.call.tiers = <<"remove", "reindex", "advanced">>
    /\ ~doc.call.indexOk
    /\ Matching("xa.pdf", doc.chunks) = {"xa.pdf"} \X ChunkNumbers

-----------------------------------------------------------------------------
(* Claims about navigation, under SpecNav *)

\* the moves of current_page
PageEdges ==
    {<<"login", "dashboard">>, <<"dashboard", "agent_interface">>,
     <<"dashboard", "settings">>, <<"agent_interface", "dashboard">>,
     <<"settings", "dashboard">>, <<"dashboard", "login">>}

\* C9: a run of main() on a session that is not authenticated sets
\* current_page to 'login' and renders the login page only, and on an
\* authenticated session at 'login' it moves to 'dashboard' without rendering;
\* dashboard, agent_interface and settings are rendered only while
\* authenticated, settings only for user_role 'admin'; current_page moves
\* only along login -> dashboard -> {agent_interface, settings} and back.
C9_GatedNavigation ==
    [][/\ (\E conn \in ConnectOutcomes, ok \in BOOLEAN : Main(conn, ok)) =>
            LET st == initialize_session_state(nav) IN
            /\ ~st.authenticated =>
                    nav'.current_page = "login" /\ nav'.rendered = "login"
            /\ st.authenticated /\ st.current_page = "login" =>
                    nav'.current_page = "dashboard" /\ nav'.rendered = "rerun"
       /\ nav'.rendered \in {"dashboard", "agent_interface", "settings", "settings_denied"} =>
            nav'.authenticated
       /\ nav'.rendered = "settings" => nav'.user_role = "admin"
       /\ nav'.rendered = "login" => ~nav'.authenticated
       /\ nav'.current_page # nav.current_page =>
            <<nav.current_page, nav'.current_page>> \in PageEdges]_vars

\* an admin session on the rendered settings page
C9_Witness ==
    /\ nav.authenticated
    /\ nav.user_role = "admin"
    /\ nav.current_page = "settings"
    /\ nav.rendered = "settings"

-----------------------------------------------------------------------------
(* Claims about the chat tab, under SpecChat *)

\* the message list, thread and client of the chat of a configured agent
ChatKey(agent_id) == AzureAgentId(chat, agent_id)

MessagesOf(agent_id) == DictGet(chat.messages, ChatKey(agent_id), <<>>)

InSeq(s) == {s[i] : i \in 1..Len(s)}

\* every message of the session, under whichever key it is stored
AllMessages == UNION {InSeq(chat.messages[k]) : k \in DOMAIN chat.messages}

\* C10: while the chat of a configured agent b is open, no message typed in
\* the chat of another configured agent a is stored in the message list of b,
\* carries the thread id of b, or is displayed in the chat of b.
C10_ChatIsolation ==
    \A a \in NavAgents : \A b \in NavAgents \ {a} :
        nav.rendered = "agent_interface" /\ nav.selected_agent = b /\ chat.view = "chat" =>
            /\ \A m \in InSeq(MessagesOf(b)) : m.by # a
            /\ \A m \in AllMessages :
                   m.by = a => m.thread_id # DictGet(chat.thread_ids, ChatKey(b), 0)
            /\ \A m \in InSeq(chat.shown) : m.by # a

-----------------------------------------------------------------------------
(* Claims about create_thread, under SpecThread *)

\* C11: every create_thread invocation makes at most one SDK create_thread
\* call, and none when the client or the agent is missing; it raises when the
\* client is missing, the agent is missing, the SDK call raised, or the thread
\* returned is None or has no non-empty id; otherwise it returns the thread
\* the SDK gave, whose id is non-empty.
C11_SingleCallOrRaise ==
    \A i \in 1..Len(thr.log) :
        LET c == thr.log[i]
            failure == \/ ~thr.client
                       \/ ~thr.agent
                       \/ c.sdk = SdkRaises
                       \/ c.sdk = None
                       \/ ~HasId(c.sdk)
        IN /\ c.sdk_calls <= 1
           /\ ~thr.client \/ ~thr.agent => c.sdk_calls = 0
           /\ failure => c.raised /\ c.ret = None
           /\ ~failure => ~c.raised /\ c.ret = c.sdk /\ c.ret.id # ""
           /\ ~c.raised => HasId(c.ret)

\* an invocation that raised on a thread without id after one that returned
\* a thread
C11_Witness ==
    /\ Len(thr.log) >= 2
    /\ ~thr.log[1].raised /\ thr.log[1].ret = [id |-> "t1"]
    /\ thr.log[2].raised /\ thr.log[2].sdk = [id |-> ""] /\ thr.log[2].sdk_calls = 1

-----------------------------------------------------------------------------
(* Claims about the document references, under SpecRefs and SpecMerge *)

\* the name the placeholder at position i of the text processed stands for
ExpectedName(i) ==
    LET n == refs.text.items[i].n IN
    IF refs.mapping # <<>> /\ n < Len(refs.mapping)
    THEN Basename(refs.mapping[n + 1])
    ELSE KaynakDosya(n)

\* C12: in the text _process_document_references returns, every '[n:source]'
\* placeholder of the input has become a document-reference span of its own
\* that names the file at index n of the mapping or, with no mapping or n out
\* of range, reads 'Kaynak Dosya n+1', and the text between the placeholders
\* is as it was.
C12_PlaceholderSpans ==
    refs.op = "process" =>
        /\ Len(refs.result.items) = Len(refs.text.items)
        /\ \A i \in 1..Len(refs.text.items) :
               i <= Len(refs.result.items) =>
                   refs.result.items[i] = Span(FileIcon, <<ExpectedName(i)>>, <<i>>)
        /\ refs.result.gaps = refs.text.gaps

\* what merging the spans at the positions src of the text t gives: their
\* parts in order, keep saying whether a text of 1 to 10 characters between
\* two of them stays between
RECURSIVE Joined(_, _, _)
Joined(t, src, keep) ==
    IF Len(src) = 1 THEN t.items[src[1]].parts
    ELSE LET last_pos == src[Len(src)]
             gap == t.gaps[last_pos - 1]
         IN Joined(t, SubSeq(src, 1, Len(src) - 1), keep) \o
            (IF keep /\ gap.stripped > 0 /\ gap.stripped <= 10 THEN <<gap.text>> ELSE <<>>) \o
            t.items[last_pos].parts

\* every two consecutive spans of the input at most 20 characters apart are
\* in one span of the result, every span of the result made of several is
\* the file icon and their parts, and every other span is as it was
MergedAs(keep) ==
    refs.op = "merge" =>
        /\ \A i \in 1..(Len(refs.text.items) - 1) :
               refs.text.gaps[i].raw <= 20 =>
                   \E k \in 1..Len(refs.result.items) :
                       \E j \in 1..(Len(refs.result.items[k].src) - 1) :
                           refs.result.items[k].src[j] = i
        /\ \A k \in 1..Len(refs.result.items) :
               LET o == refs.result.items[k] IN
               IF Len(o.src) = 1 THEN o = refs.text.items[o.src[1]]
               ELSE o.icon = FileIcon /\ o.parts = Joined(refs.text, o.src, keep)

-----------------------------------------------------------------------------
(* Claims about update_agent and the id checks, under SpecAgents *)

\* a record without its timestamps
WithoutTimes(d) == [k \in DOMAIN d \ {"created_at", "updated_at"} |-> d[k]]

\* the record stored under agent_id is what update_agent(agent_id, cfg)
\* stores, timestamps apart
StoredBy(record, agent_id, cfg) ==
    TruthyDict(record) /\ WithoutTimes(record) = WithoutTimes(Put(cfg, "id", agent_id))

\* update_agent preserving created_at and repeating itself, whatever its
\* read of the existing record did
UpdateKeepsRecord(requireRead) ==
      \A i \in AgentIds, cfg \in AgentCfgs, rf \in BOOLEAN, wf \in BOOLEAN :
          UpdateAgent(i, cfg, rf, wf) /\ last'.ok /\ (requireRead => ~rf) =>
              LET before == get_agent(i, FALSE)
                  after == get_agent(i, FALSE)'
              IN /\ TruthyDict(after)
                 /\ after["id"] = i
                 /\ TruthyDict(before) =>
                        DictGet(after, "created_at", NoTime) =
                            DictGet(before, "created_at", NoTime)
                 /\ last.op = "update_agent" /\ last.ok /\ last.id = i
                        /\ StoredBy(before, i, cfg) =>
                            WithoutTimes(after) = WithoutTimes(before)

\* C14: an update_agent(id, payload) that returns True right after one that
\* returned True with the same payload stores a record that is, created_at
\* and updated_at apart, the record stored before; the id stored by every
\* update_agent that returns True is the id argument, and the created_at of
\* a record that exists is the created_at stored.
C14_UpdateIdempotent == [][UpdateKeepsRecord(FALSE)]_vars

-----------------------------------------------------------------------------
(* Claims about the argument checks of has_permission, under SpecPerm *)

\* C15: a has_permission call whose username or agent_id is None or empty
\* returns False without reading the user store, whatever is stored under
\* that username (a record with role 'admin' and permission 'all' included).
C15_ShortCircuit ==
    (permQ.called /\ ~QNonEmptyArgs) => (permQ.result = FALSE /\ ~permQ.read)

\* a call with the empty username, under which an admin with 'all' is stored
C15_Witness ==
    /\ permQ.called /\ permQ.username = "" /\ permQ.agent_id = "scm"
    /\ QStored # None /\ DictGet(QStored, "role", "user") = "admin"
    /\ permQ.result = FALSE /\ ~permQ.read

-----------------------------------------------------------------------------
(* Claims about the waits of send_message_and_get_response, under SpecSend *)

\* the attempts of the call that ended with AzureError
FailedAttempts == {i \in 1..Len(send.log) : send.log[i] = "AzureError"}

\* the i-th wait is retry_delay * 2^(i-1) seconds
ExponentialSleeps ==
    \A i \in 1..Len(send.sleeps) : send.sleeps[i] = retry_delay * (2 ^ (i - 1))

\* C16 as stated: the call sleeps after every attempt that failed with
\* AzureError, 1s after the first, 2s after the second and 4s after the
\* third.
C16_SleepAfterEveryFailure ==
    /\ ExponentialSleeps
    /\ Len(send.sleeps) = Cardinality(FailedAttempts)

\* C16: the call sleeps only between attempts, retry_delay * 2^attempt
\* seconds after attempt number attempt (from 0) failed with AzureError and
\* another attempt follows: 1s after the first and 2s after the second; after
\* the third (last) failed attempt it returns without sleeping.
C16_SleepBetweenAttempts ==
    /\ ExponentialSleeps
    /\ Len(send.sleeps) = IF send.started = 0 THEN 0 ELSE send.started - 1
    /\ Len(send.sleeps) <= max_retries - 1

\* three attempts failed with AzureError: the call slept 1s and 2s
C16_Witness ==
    /\ send.pc = "done"
    /\ send.log = <<"AzureError", "AzureError", "AzureError">>
    /\ send.sleeps = <<1, 2>>

-----------------------------------------------------------------------------
(* Claims about empty ids, under SpecStore *)

\* the methods that take an agent id or a username
IdOps == {"add_agent", "update_agent", "delete_agent", "get_agent", "add_user",
          "create_admin_user", "get_user", "update_user_permissions", "delete_user"}

\* C17: no blob named '.json' exists in either container, and a call of a
\* method with an empty or missing id returned its rejection (False or None)
\* with no storage call made, hence none that raised.
C17_NoBlobForEmptyId ==
    /\ agents[BlobName("")] = Missing
    /\ users[BlobName("")] = Missing
    /\ (last.op \in IdOps /\ ~TruthyStr(last.id)) =>
            ~last.ok /\ last.ret = None /\ last.faults = {}

-----------------------------------------------------------------------------
(* Claims about the active agents, under SpecAgents *)

\* what get_active_agents() returns in this state when no storage call fails
ActiveNow == get_active_agents(get_all_agents(FALSE, {}))

\* C18: once set_agent_status(id, 'inactive') has returned True and the
\* record stored has status 'inactive', get_active_agents() does not contain
\* id; after add_agent has stored a record with the default status 'active'
\* and enabled True, get_active_agents() contains its id.
C18_OnlyActiveAgents ==
    LET stored == get_agent(last.id, FALSE) IN
    /\ (last.op = "set_agent_status" /\ last.ok /\ TruthyDict(stored)
            /\ DictGet(stored, "status", "") = "inactive")
        => last.id \notin DOMAIN ActiveNow
    /\ (last.op = "add_agent" /\ last.ok /\ TruthyDict(stored)
            /\ DictGet(stored, "status", "") = "active" /\ DictGet(stored, "enabled", FALSE) = TRUE)
        => last.id \in DOMAIN ActiveNow

-----------------------------------------------------------------------------
(* Claims about adding a user without a password, under SpecStore *)

\* C19: add_user(username, role, None, permissions) with a non-empty
\* username that is not stored, on a store whose client is set and whose
\* upload does not fail, returns True, and get_user(username) then returns a
\* record with that role and those permissions.
C19_AddUserWithoutPassword ==
    [][\A u \in Usernames, role \in {"standard", "admin"}, perms \in StorePerms :
          (/\ AddUser(u, role, NoneStr, perms, FALSE)
           /\ TruthyStr(u)
           /\ userClient
           /\ get_user(u, FALSE) = None)
          => /\ last'.ok
             /\ LET user_data == get_user(u, FALSE)' IN
                /\ TruthyDict(user_data)
                /\ user_data["role"] = role
                /\ perms # NonePerms => user_data["permissions"] = perms]_vars

-----------------------------------------------------------------------------
(* Claims about the New Conversation button, under SpecChat *)

\* C20: when the New Conversation action has completed, the message list of
\* the agent is empty, nothing of it is displayed, its conversation id is one
\* it did not have before, and the thread id stored for it is a new one,
\* different from the thread id in use before the action.
C20_NewConversationIsolates ==
    [][\A created \in BOOLEAN :
          NewConversation(created) =>
              LET key == AzureAgentId(chat, nav.selected_agent) IN
              /\ chat'.messages[key] = <<>>
              /\ Displayed(chat', key) = <<>>
              /\ chat'.conversation_ids[key] # DictGet(chat.conversation_ids, key, 0)
              /\ \A k \in DOMAIN chat.conversation_ids :
                     chat'.conversation_ids[key] # chat.conversation_ids[k]
              /\ DictGet(chat'.thread_ids, key, 0) # DictGet(chat.thread_ids, key, 0)]_vars

-----------------------------------------------------------------------------
(* Claims about the permission gate of the agent page, under SpecTabs *)

\* the session of a backend call is an admin session
ByAdmin(x) == x.role = "admin"

\* has_permission(current_user, selected_agent, permission_type) returned
\* True in the run of a backend call of a session with a user manager and a
\* current user
Permitted(x, permission_type) ==
    /\ x.user_manager
    /\ TruthyStr(x.user)
    /\ has_permission(x.user, x.agent, permission_type, FALSE).result

-----------------------------------------------------------------------------
(* Claims about the session dicts of the agent page, under SpecTabs *)

\* C28: every key of ai_clients has a thread id in thread_ids and True in
\* connection_status.
C28_ClientHasThreadAndStatus ==
    \A key \in DOMAIN chat.ai_clients :
        /\ DictGet(chat.thread_ids, key, 0) # 0
        /\ DictGet(chat.connection_status, key, FALSE)

-----------------------------------------------------------------------------
(* Claims about the index clean-up and the uploads, under SpecDoc *)

\* C22: _standard_index_deletion runs remove_document_from_index first, then
\* trigger_reindex_after_document_change whatever the first tier came to,
\* then _advanced_search_and_delete exactly when neither earlier tier reported
\* success; a tier that raises does not stop the later ones; the result is
\* True exactly when a tier that ran reported success.
C22_TierOrder ==
    doc.call.op = "_standard_index_deletion" =>
        LET tiers == doc.call.tiers
            outcomes == doc.call.outcomes
        IN /\ Len(tiers) \in {2, 3}
           /\ Len(outcomes) = Len(tiers)
           /\ tiers[1] = "remove"
           /\ tiers[2] = "reindex"
           /\ Len(tiers) = 3 <=> (outcomes[1] # "success" /\ outcomes[2] # "success")
           /\ Len(tiers) = 3 => tiers[3] = "advanced"
           /\ doc.call.result = (\E i \in 1..Len(outcomes) : outcomes[i] = "success")

\* the first two tiers raised, the third ran and reported success
C22_Witness ==
    /\ doc.call.op = "_standard_index_deletion"
    /\ doc.call.outcomes = <<"raises", "raises", "success">>
    /\ doc.call.tiers = <<"remove", "reindex", "advanced">>
    /\ doc.call.result

\* C23: when upload_document or upload_and_index_document has reported
\* success, the file is in the blob container.
C23_SuccessMeansWritten ==
    doc.call.op \in {"upload_document", "upload_and_index_document"} /\ doc.call.result =>
        doc.call.file \in doc.blobs

-----------------------------------------------------------------------------
(* Claims about Logout, under SpecChat *)

\* the chat dicts of the session are all empty and nothing is displayed
NoChatState ==
    /\ chat.messages = EmptyDict
    /\ chat.thread_ids = EmptyDict
    /\ chat.ai_clients = EmptyDict
    /\ chat.connection_status = EmptyDict
    /\ chat.conversation_ids = EmptyDict
    /\ chat.shown = <<>>

\* C24: Logout leaves a session whose next run starts with authenticated
\* False, no current user, role or selected agent, and with empty messages,
\* thread_ids, ai_clients and connection_status; and as long as nobody is
\* logged in the session holds no chat state, so a login starts from none.
C24_LogoutClearsSession ==
    /\ [](~nav.authenticated => NoChatState)
    /\ [][ClickLogout =>
            LET next == initialize_session_state(nav') IN
            /\ nav'.cleared
            /\ ~next.authenticated
            /\ next.current_user = NoneStr
            /\ next.user_role = NoneStr
            /\ next.selected_agent = NoneStr
            /\ next.current_page = "login"
            /\ next.user_manager = nav.user_manager
            /\ chat'.messages = EmptyDict
            /\ chat'.thread_ids = EmptyDict
            /\ chat'.ai_clients = EmptyDict
            /\ chat'.connection_status = EmptyDict
            /\ chat'.cfg = chat.cfg]_vars

\* logged out after messages were exchanged
C24_Witness ==
    /\ nav.cleared
    /\ chat.sends > 0
    /\ NoChatState

-----------------------------------------------------------------------------
(* Claims about the messages a send posts, under SpecSend *)

\* C25: one call of send_message_and_get_response posts the user message to
\* the thread at most once, however many attempts it makes.
C25_PostedAtMostOnce == send.posts <= 1

-----------------------------------------------------------------------------
(* Claims about the text the merge keeps, under SpecMerge *)

\* C26: every text that stood between two spans of the input is in the
\* result of _merge_fragmented_references, between two spans as before or,
\* when the two spans were merged, inside the merged span.
C26_MergeKeepsText ==
    refs.op = "merge" =>
        \A i \in 1..Len(refs.text.gaps) :
            refs.text.gaps[i].stripped > 0 =>
                \/ \E k \in 1..Len(refs.result.gaps) :
                       refs.result.gaps[k] = refs.text.gaps[i]
                \/ \E k \in 1..Len(refs.result.items) :
                       \E j \in 1..Len(refs.result.items[k].parts) :
                           refs.result.items[k].parts[j] = refs.text.gaps[i].text

-----------------------------------------------------------------------------
(* Claims about duplicate-response regeneration, under SpecRegenLive *)

\* C27: every process_ai_response call returns; it makes at most
\* registry_limit + 1 (21) backend calls, each on an input one suffix longer
\* than the one before; the registry never holds more than registry_limit
\* entries; and a response is registered, and appended to the history, only
\* by the last level, whose response was not a duplicate.
C27_RegenerationTerminates ==
    /\ [](/\ Len(regen.log) <= registry_limit + 1
          /\ Len(regen.registry) <= registry_limit
          /\ regen.pc = "calling" => regen.input = Len(regen.log)
          /\ \A i \in 1..Len(regen.log) :
                 /\ i < Len(regen.log) => regen.log[i] = "duplicate"
                 /\ regen.log[i] \in {"registered", "raised"} =>
                        i = Len(regen.log) /\ regen.pc = "idle")
    /\ [][/\ regen'.registry # regen.registry =>
                regen'.log # <<>> /\ regen'.log[Len(regen'.log)] = "registered"
          /\ regen'.history # regen.history =>
                /\ regen'.log # <<>> /\ regen'.log[Len(regen'.log)] = "registered"
                /\ Len(regen'.history) = Len(regen.history) + 1]_vars
    /\ (regen.pc = "calling" ~> regen.pc = "idle")

\* twenty duplicates in a row, and the twenty-first response registered
C27_Witness ==
    /\ regen.pc = "idle"
    /\ Len(regen.log) = registry_limit + 1
    /\ regen.log[registry_limit + 1] = "registered"
    /\ Len(regen.registry) = registry_limit

-----------------------------------------------------------------------------
(* Claims about the generated WebJob script, under SpecJob *)

\* the file ids of uploaded_file_ids, in order
ReportedFiles == [i \in 1 .. Len(job.uploaded_file_ids) |-> job.uploaded_file_ids[i].file_id]

\* a run of the script has ended after attaching at least one file
RunAttached == job.pc = "idle" /\ job.exit # NoneStr /\ Len(job.uploaded_file_ids) >= 1

\* C29: after a run that attached at least one file, the agent's code-interpreter files are
\* exactly the files reported in uploaded_file_ids, in order (the first attachment cleared the
\* earlier files, the later ones appended), the vector-store ids and the tools are those from
\* before the run, and the exit code is 0 exactly when no file failed
C29_AgentHoldsReportedFiles ==
    RunAttached =>
        /\ job.agent.code_files = ReportedFiles
        /\ \A i \in 1 .. Len(job.attached) : job.attached[i] = (i = 1)
        /\ job.agent.vector_store_ids = job.before.vector_store_ids
        /\ job.agent.tools = job.before.tools
        /\ (job.exit = "0") <=> (job.error_count = 0)

-----------------------------------------------------------------------------
(* Claims about a delete between another session's read and write, under SpecRace *)

\* session s uploads the record it built from a blob that has been deleted since it was read
Recreates(s) ==
    /\ race[s].pc = "upload"
    /\ race[s].op \in {"update_agent", "set_agent_status"}
    /\ race[s].seen # Missing
    /\ agents[BlobName(race[s].id)] = Missing
    /\ race'[s].pc = "done"

\* the fields of the deleted record that a change of status leaves alone
OldFields(s) == DOMAIN JsonLoads(race[s].seen) \ {"status", "updated_at"}

\* C30 as stated: after the upload get_agent(id) returns the configuration the agent had
\* before it was deleted, whichever of set_agent_status and update_agent made the upload
C30_OldConfigurationReturns ==
    [][\A s \in Sessions :
          Recreates(s) =>
            /\ race'[s].ret = "True"
            /\ LET old == JsonLoads(race[s].seen)
                   now == JsonLoads(agents'[BlobName(race[s].id)])
               IN  /\ agents'[BlobName(race[s].id)] # Missing
                   /\ \A k \in OldFields(s) : k \in DOMAIN now /\ now[k] = old[k]]_vars

\* C30: a deleted agent reappears without an add.  The upload of a session that read the agent
\* before delete_agent removed it re-creates the blob and the call returns True; afterwards
\* get_agent(id) returns the record that session built: after set_agent_status the deleted
\* configuration with the new status and updated_at, after update_agent the submitted
\* configuration with the id and the created_at of the deleted one
C30_DeletedAgentReappears ==
    [][\A s \in Sessions :
          Recreates(s) =>
            /\ race'[s].ret = "True"
            /\ agents'[BlobName(race[s].id)] = JsonDumps(race[s].record)
            /\ LET old == JsonLoads(race[s].seen)
                   now == JsonLoads(agents'[BlobName(race[s].id)])
               IN  /\ now["id"] = race[s].id
                   /\ now["created_at"] = DictGet(old, "created_at", NoTime)
                   /\ race[s].op = "set_agent_status" =>
                        \A k \in OldFields(s) : k \in DOMAIN now /\ now[k] = old[k]]_vars

\* delete_agent('a') returned True in session 1 between the read and the upload of
\* set_agent_status('a', 'inactive') in session 2, which returned True as well, and
\* get_agent('a') returns the deleted configuration with status 'inactive'
C30_Witness ==
    /\ race[1].op = "delete_agent" /\ race[1].ret = "True" /\ race[1].id = "a"
    /\ race[2].op = "set_agent_status" /\ race[2].ret = "True" /\ race[2].id = "a"
    /\ race[2].seen # Missing
    /\ LET stored == get_agent("a", FALSE) IN
       /\ TruthyDict(stored)
       /\ stored["name"] = "n1"
       /\ stored["status"] = "inactive"

====
